---- MODULE Spec2Model ----
(***************************************************************************)
(* Spectrum-Studio: the StudioPhase component's two render pipelines.      *)
(*                                                                         *)
(*   Spec        the offline WebCodecs pipeline, startOfflineRendering     *)
(*               (src/vite.config.ts, the StudioPhase component that       *)
(*               follows the ten-line vite configuration in that file).    *)
(*   SpecStream  the streaming MediaRecorder pipeline, startRendering      *)
(*               (src/components/StudioPhase.tsx), one start request       *)
(*               at a time.                                                *)
(*   SpecOverlap the same pipeline with start requests that overlap.       *)
(*   SpecCompositor  step 2 of startOfflineRendering (the audio            *)
(*               compositor) on its own, durations in microseconds.        *)
(*   SpecNegotiation  the codec negotiation of both pipelines over every   *)
(*               set of capability answers.                                *)
(*   SpecFilename  the start request over the file names typed in.         *)
(*   SpecPlaylist  start and cancellation of a streaming render with the   *)
(*               playlist editor in use.                                   *)
(*   SpecFair    Spec under weak fairness of the runtime's own steps.      *)
(*   SpecStreamFair  SpecStream under weak fairness of the sink's          *)
(*               settling and of the stop handler's wait for the queue.    *)
(*   SpecPlayback  the playlist's rows played, ended, removed and moved,   *)
(*               on a four-track playlist.                                 *)
(*                                                                         *)
(* Units.  Durations are integer milliseconds, timestamps integer          *)
(* microseconds, sample counts are frames at 48 kHz.  The source computes  *)
(* in IEEE doubles; the model computes the same expressions in exact       *)
(* integer arithmetic (a double product such as i * (1/fps) * 1e6 can      *)
(* land one microsecond below the exact value after the integer            *)
(* conversion of VideoFrame.timestamp).  renderProgress is kept as an      *)
(* exact fraction [n, d].                                                  *)
(*                                                                         *)
(* Atomicity.  One action is one run-to-completion step of the JavaScript  *)
(* event loop: from the resumption of an await (or the dispatch of an      *)
(* event) up to the next await, including the microtasks it triggers.      *)
(***************************************************************************)
EXTENDS Integers, Sequences, FiniteSets, TLC

\* ------------------------------------------------------------------ bounds
MaxLoop == 2
MaxChunks == 3
MaxRenders == 2

\* --------------------------------------------------------------- constants
sampleRate == 48000
chunkDuration == 1

\* ------------------------------------------------------------------ inputs
\* Track durations (ms) of the playlists handed to the component.
Track(id, ms) == [id |-> id, duration |-> ms]

Playlists ==
  { << Track(1, 3000), Track(2, 2000) >>,
    << Track(1, 50) >>,
    << Track(1, 100), Track(2, 33) >>,
    << Track(1, 17) >>,
    << Track(1, 1050) >>,
    << Track(1, 5), Track(2, 4), Track(3, 4), Track(4, 4) >> }

RENDER_PRESETS ==
  [ high |-> [fps |-> 60, bitrate |-> 8000000],
    balanced |-> [fps |-> 30, bitrate |-> 5000000],
    fast |-> [fps |-> 30, bitrate |-> 2500000] ]

PresetIds == {"high", "balanced", "fast"}

\* ----------------------------------------------------------------- helpers
RECURSIVE SumDurations(_)
SumDurations(s) ==
  IF s = << >> THEN 0 ELSE Head(s).duration + SumDurations(Tail(s))

CeilDiv(a, b) == (a + b - 1) \div b

Min(a, b) == IF a < b THEN a ELSE b

Rat(n, d) == [n |-> n, d |-> d]
RatLess(a, b) == a.n * b.d < b.n * a.d
RatEq(a, b) == a.n * b.d = b.n * a.d

\* =================================================================== state
VARIABLES
  \* environment
  hasSaveFilePicker,   \* 'showSaveFilePicker' in window
  hasEncodingAPI,      \* the encoding API the pipeline uses exists in window:
                       \* VideoEncoder (offline), MediaRecorder (streaming)
  typeSupport,         \* MediaRecorder.isTypeSupported(supportedTypes[k])
  mimeType,            \* streaming: let mimeType of the last startRendering
  renderFilename,      \* useState("My_Spectrum_Video"), a sequence of
                       \* UTF-16 code units
  suggestedName,       \* the suggestedName last handed to showSaveFilePicker
  \* component state and props (both pipelines)
  playlist, loopCount, selectedPreset, showRenderModal, isRendering,
  isPlaying, renderProgress, renderStatusText, usedCodec,
  currentTrackIndex, currentLoopIteration,
  alerts,              \* notices shown since the last start-render request
  pc,                  \* position of the start-render async function
  renders,             \* streaming: number of the current start-render request
  cancelled,           \* the user has confirmed a cancel of the current render
  \* offline pipeline (startOfflineRendering locals)
  fileHandle, audioContext, trackBuffers, offlineCtx, sources, probed,
  chosenCodec, videoConfig, muxer, writable, videoEncoder, audioEncoder,
  videoFrames, audioChunks, totalFrames, frameIdx, framePc, flushed,
  fps,                 \* const fps = selectedPreset.fps of the running call
  \* streaming pipeline (refs of src/components/StudioPhase.tsx)
  mediaRecorderRef, mediaRecorder, onstop, writableStreamRef, streams,
  queues, stopPc, stopRef, cancelPc, cancelRef, events, gain, chunksEmitted,
  sinkLog, calls,
  currentTime          \* audioRef.current.currentTime, in ms

envVars == << hasSaveFilePicker, hasEncodingAPI, typeSupport >>
auxVars == << mimeType, renderFilename, suggestedName >>
uiVars == << playlist, loopCount, selectedPreset, showRenderModal,
             isRendering, isPlaying, renderProgress, renderStatusText,
             usedCodec, currentTrackIndex, currentLoopIteration, alerts,
             pc, renders, cancelled >>
offVars == << fileHandle, audioContext, trackBuffers, offlineCtx, sources,
              probed, chosenCodec, videoConfig, muxer, writable,
              videoEncoder, audioEncoder, videoFrames, audioChunks,
              totalFrames, frameIdx, framePc, flushed, fps >>
strVars == << mediaRecorderRef, mediaRecorder, onstop, writableStreamRef,
              streams, queues, stopPc, stopRef, cancelPc, cancelRef, events,
              gain, chunksEmitted, sinkLog, calls, currentTime >>
vars == << envVars, auxVars, uiVars, offVars, strVars >>

\* ------------------------------------------------------- derived (useMemo)
playlistDuration == SumDurations(playlist)
totalDuration == playlistDuration * loopCount

\* ------------------------------------------------ offline: pure computations
VideoCodecs == << "hvc1.1.6.L120.B0", "avc1.640028", "avc1.420028" >>

\* faulty variant: Math.floor in place of Math.ceil
TotalFramesFloor(durMs, f) == (durMs * f) \div 1000

TotalFrames(durMs, f) == CeilDiv(durMs * f, 1000)
TotalDurationSamples(durMs) == CeilDiv(durMs * sampleRate, 1000)
\* faulty variant: the frame time truncated to whole seconds
FrameTimestampWholeSeconds(i, f) == (i \div f) * 1000000

FrameTimestamp(i, f) == (i * 1000000) \div f
FrameDuration(f) == 1000000 \div f
\* faulty variant: a one-second key frame interval
KeyFrameEverySecond(i, f) == i % f = 0

KeyFrame(i, f) == i % (f * 2) = 0
\* faulty variant: the share of frames done, out of 100
VideoProgressOfHundred(i, n) == Rat((i + 1) * 100, n)

VideoProgress(i, n) == Rat(i * 90, n)

\* The two scheduling loops over loopCount x trackBuffers: start times (ms).
RECURSIVE ScheduleLoop(_, _, _, _)
ScheduleLoop(bufs, j, loop, startTime) ==
  IF j > Len(bufs) THEN << >>
  ELSE << [loop |-> loop, track |-> j, start |-> startTime,
           end |-> startTime + bufs[j]] >>
       \o ScheduleLoop(bufs, j + 1, loop, startTime + bufs[j])

\* faulty variant: startTime is reset at the head of every loop iteration
RECURSIVE ScheduleRestart(_, _, _, _)
ScheduleRestart(bufs, loop, loops, startTime) ==
  IF loop >= loops THEN << >>
  ELSE ScheduleLoop(bufs, 1, loop, 0)
         \o ScheduleRestart(bufs, loop + 1, loops, 0)

RECURSIVE Schedule(_, _, _, _)
Schedule(bufs, loop, loops, startTime) ==
  IF loop >= loops THEN << >>
  ELSE LET one == ScheduleLoop(bufs, 1, loop, startTime)
           next == IF one = << >> THEN startTime ELSE one[Len(one)].end
       IN one \o Schedule(bufs, loop + 1, loops, next)

\* source.connect(node) for every source of one pass of the scheduling loops
ConnectTo(srcs, node) ==
  [k \in 1..Len(srcs) |->
     [loop |-> srcs[k].loop, track |-> srcs[k].track,
      start |-> srcs[k].start, end |-> srcs[k].end, to |-> node]]

\* The sources of the offline graph: the first pass connects each source to
\* offlineCtx.destination, the second pass to masterGain.
GraphSources(bufs, loops) ==
  ConnectTo(Schedule(bufs, 0, loops, 0), "destination")
    \o ConnectTo(Schedule(bufs, 0, loops, 0), "masterGain")

\* masterGain.connect(offlineCtx.destination); masterGain.connect(analyserNode)
GraphEdges ==
  { << "masterGain", "destination" >>, << "masterGain", "analyserNode" >> }

\* The audio re-chunking loop: for (offset = 0; offset < total; offset += chunkSamples)
chunkSamples == sampleRate * chunkDuration

\* faulty variant: the loop runs while offset <= totalSamples
RECURSIVE AudioChunksInclusive(_, _)
AudioChunksInclusive(offset, totalSamples) ==
  IF offset > totalSamples THEN << >>
  ELSE << [offset |-> offset,
           size |-> Min(chunkSamples, totalSamples - offset),
           timestamp |-> (offset * 125) \div 6] >>
       \o AudioChunksInclusive(offset + chunkSamples, totalSamples)

RECURSIVE AudioChunksFrom(_, _)
AudioChunksFrom(offset, totalSamples) ==
  IF offset >= totalSamples THEN << >>
  ELSE << [offset |-> offset,
           size |-> Min(chunkSamples, totalSamples - offset),
           \* (offset / sampleRate) * 1000000, with 1000000 / 48000 = 125 / 6
           timestamp |-> (offset * 125) \div 6] >>
       \o AudioChunksFrom(offset + chunkSamples, totalSamples)

\* ------------------------------------------- streaming: pure computations
supportedTypes ==
  << "video/mp4; codecs=\"avc1.4d002a, mp4a.40.2\"",
     "video/mp4; codecs=\"avc1.42002a, mp4a.40.2\"",
     "video/mp4; codecs=\"avc1.640034, mp4a.40.2\"",
     "video/mp4; codecs=\"avc1.640028, mp4a.40.2\"",
     "video/mp4",
     "video/webm; codecs=h264" >>

\* faulty variant: the loop without its break keeps the last supported type
RECURSIVE MimeLoopNoBreak(_, _, _)
MimeLoopNoBreak(sup, k, chosen) ==
  IF k > Len(supportedTypes) THEN chosen
  ELSE MimeLoopNoBreak(sup, k + 1,
                       IF sup[k] THEN supportedTypes[k] ELSE chosen)

\* for (const type of supportedTypes) if (isTypeSupported(type))
\* { mimeType = type; break; }, from the k-th type on
RECURSIVE MimeLoop(_, _, _)
MimeLoop(sup, k, chosen) ==
  IF k > Len(supportedTypes) THEN chosen
  ELSE IF sup[k] THEN supportedTypes[k]
  ELSE MimeLoop(sup, k + 1, chosen)

\* let mimeType = ''; the loop; if (!mimeType) mimeType = (the vp9 fallback)
SelectMimeType(sup) ==
  LET m == MimeLoop(sup, 1, "")
  IN IF m = "" THEN "video/webm; codecs=vp9" ELSE m

\* --------------------------------------------- the suggested file name
MaxName == 3

\* the code units matched by /[a-z0-9]/i
AlphaNumeric ==
  { "a", "b", "c", "d", "e", "f", "g", "h", "i", "j", "k", "l", "m",
    "n", "o", "p", "q", "r", "s", "t", "u", "v", "w", "x", "y", "z",
    "A", "B", "C", "D", "E", "F", "G", "H", "I", "J", "K", "L", "M",
    "N", "O", "P", "Q", "R", "S", "T", "U", "V", "W", "X", "Y", "Z",
    "0", "1", "2", "3", "4", "5", "6", "7", "8", "9" }

\* code units a user types: letters of both cases, a digit, and others
CodeUnits == { "a", "Z", "7", "_", " ", "-", "~" }

FileNames ==
  UNION { [1..n -> CodeUnits] : n \in 0..MaxName }

DefaultFilename ==
  << "M", "y", "_", "S", "p", "e", "c", "t", "r", "u", "m", "_",
     "V", "i", "d", "e", "o" >>

\* faulty variant: the pattern without its g flag replaces the first match
\* only
RECURSIVE ReplaceFirstNonAlnum(_)
ReplaceFirstNonAlnum(name) ==
  IF name = << >> THEN << >>
  ELSE IF Head(name) \in AlphaNumeric
         THEN << Head(name) >> \o ReplaceFirstNonAlnum(Tail(name))
         ELSE << "_" >> \o Tail(name)

\* name.replace(/[^a-z0-9]/gi, '_')
RECURSIVE ReplaceNonAlnum(_)
ReplaceNonAlnum(name) ==
  IF name = << >> THEN << >>
  ELSE << (IF Head(name) \in AlphaNumeric THEN Head(name) ELSE "_") >>
         \o ReplaceNonAlnum(Tail(name))

\* `${renderFilename.replace(/[^a-z0-9]/gi, '_')}.mp4`
SuggestedName(name) == ReplaceNonAlnum(name) \o << ".", "m", "p", "4" >>

\* ================================================================== initial
NoRat == Rat(0, 1)

StreamInit ==
  /\ calls = [c \in 1..MaxRenders |-> "none"]
  /\ mediaRecorderRef = 0
  /\ mediaRecorder = [r \in 1..MaxRenders |-> "none"]
  /\ onstop = [r \in 1..MaxRenders |-> FALSE]
  /\ writableStreamRef = 0
  /\ streams = [r \in 1..MaxRenders |-> "none"]
  /\ queues = [r \in 1..MaxRenders |-> [pending |-> << >>, inflight |-> {}]]
  /\ stopPc = [r \in 1..MaxRenders |-> "none"]
  /\ stopRef = [r \in 1..MaxRenders |-> 0]
  /\ cancelPc = "none"
  /\ cancelRef = 0
  /\ events = << >>
  /\ gain = 1
  /\ chunksEmitted = 0
  /\ sinkLog = << >>
  /\ currentTime = 0

JobInit ==
  /\ fileHandle = "none"
  /\ audioContext = "none"
  /\ trackBuffers = << >>
  /\ offlineCtx = [length |-> 0, state |-> "none"]
  /\ sources = << >>
  /\ probed = [k \in 1..3 |-> "unchecked"]
  /\ chosenCodec = "none"
  /\ videoConfig = 0
  /\ muxer = [state |-> "none", codec |-> "none"]
  /\ writable = "none"
  /\ videoEncoder = "none"
  /\ audioEncoder = "none"
  /\ videoFrames = << >>
  /\ audioChunks = << >>
  /\ totalFrames = 0
  /\ frameIdx = 0
  /\ framePc = "none"
  /\ flushed = {}
  /\ fps = 0

UiInit ==
  /\ playlist \in Playlists
  /\ loopCount \in 1..MaxLoop
  /\ selectedPreset = "balanced"
  /\ showRenderModal = FALSE
  /\ isRendering = FALSE
  /\ isPlaying = FALSE
  /\ renderProgress = NoRat
  /\ renderStatusText = ""
  /\ usedCodec = ""
  /\ currentTrackIndex = 0
  /\ currentLoopIteration = 0
  /\ alerts = {}
  /\ pc = "idle"
  /\ renders = 0
  /\ cancelled = FALSE

\* everything but the file name the user has typed
InitRest ==
  /\ hasSaveFilePicker \in BOOLEAN
  /\ hasEncodingAPI \in BOOLEAN
  /\ typeSupport = [k \in 1..Len(supportedTypes) |-> k >= 3]
  /\ mimeType = ""
  /\ suggestedName = << >>
  /\ UiInit
  /\ JobInit
  /\ StreamInit

Init ==
  /\ InitRest
  /\ renderFilename = DefaultFilename

\* the values a fresh call of startOfflineRendering starts from
JobReset ==
  /\ audioContext' = "none"
  /\ trackBuffers' = << >>
  /\ offlineCtx' = [length |-> 0, state |-> "none"]
  /\ sources' = << >>
  /\ probed' = [k \in 1..3 |-> "unchecked"]
  /\ chosenCodec' = "none"
  /\ videoConfig' = 0
  /\ muxer' = [state |-> "none", codec |-> "none"]
  /\ writable' = "none"
  /\ videoEncoder' = "none"
  /\ audioEncoder' = "none"
  /\ videoFrames' = << >>
  /\ audioChunks' = << >>
  /\ totalFrames' = 0
  /\ frameIdx' = 0
  /\ framePc' = "none"
  /\ flushed' = {}
  /\ fps' = 0

Alert(kind) == alerts' = alerts \cup {kind}

\* ============================================== offline pipeline: the actions
\* initiateRender: the header's render button (covered by the modal and by
\* the progress overlay while either is shown, and out of reach while the
\* native file dialogue is open).
initiateRender ==
  /\ pc \in {"idle", "done", "failed"}
  /\ \A c \in 1..MaxRenders : calls[c] # "picker"
  /\ ~showRenderModal /\ ~isRendering
  /\ isPlaying' = FALSE
  /\ showRenderModal' = TRUE
  /\ UNCHANGED << envVars, auxVars, playlist, loopCount, selectedPreset, isRendering,
                  renderProgress, renderStatusText, usedCodec,
                  currentTrackIndex, currentLoopIteration, alerts, pc,
                  renders, cancelled, offVars, strVars >>

\* the modal's preset buttons
setSelectedPreset(p) ==
  /\ showRenderModal
  /\ pc \in {"idle", "done", "failed"}
  /\ selectedPreset # p
  /\ selectedPreset' = p
  /\ UNCHANGED << envVars, auxVars, playlist, loopCount, showRenderModal, isRendering,
                  isPlaying, renderProgress, renderStatusText, usedCodec,
                  currentTrackIndex, currentLoopIteration, alerts, pc,
                  renders, cancelled, offVars, strVars >>

\* the modal's cancel button
closeRenderModal ==
  /\ showRenderModal
  /\ pc \in {"idle", "done", "failed"}
  /\ \A c \in 1..MaxRenders : calls[c] # "picker"
  /\ showRenderModal' = FALSE
  /\ UNCHANGED << envVars, auxVars, playlist, loopCount, selectedPreset, isRendering,
                  isPlaying, renderProgress, renderStatusText, usedCodec,
                  currentTrackIndex, currentLoopIteration, alerts, pc,
                  renders, cancelled, offVars, strVars >>

\* startOfflineRendering up to its first await (showSaveFilePicker)
startOfflineRendering ==
  /\ showRenderModal
  /\ pc \in {"idle", "done", "failed"}
  /\ UNCHANGED renders
  /\ IF ~hasSaveFilePicker
       THEN /\ Alert("unsupported")
            /\ UNCHANGED << pc, cancelled, offVars, suggestedName >>
       ELSE /\ pc' = "picker"
            /\ cancelled' = FALSE
            /\ JobReset
            /\ fileHandle' = "requested"
            /\ alerts' = {}
            /\ suggestedName' = SuggestedName(renderFilename)
  /\ UNCHANGED << envVars, mimeType, renderFilename, playlist, loopCount, selectedPreset,
                  showRenderModal, isRendering, isPlaying, renderProgress,
                  renderStatusText, usedCodec, currentTrackIndex,
                  currentLoopIteration, strVars >>

\* catch (e) { alert(...) } finally { setIsRendering(false) }
Fail ==
  /\ Alert("error")
  /\ isRendering' = FALSE
  /\ pc' = "failed"

\* the picker is dismissed or fails: catch (err) { return; }
PickerReject ==
  /\ pc = "picker"
  /\ pc' = "idle"
  /\ fileHandle' = "none"
  /\ UNCHANGED << envVars, auxVars, playlist, loopCount, selectedPreset,
                  showRenderModal, isRendering, isPlaying, renderProgress,
                  renderStatusText, usedCodec, currentTrackIndex,
                  currentLoopIteration, alerts, renders, cancelled,
                  audioContext, trackBuffers, offlineCtx, sources, probed,
                  chosenCodec, videoConfig, muxer, writable, videoEncoder,
                  audioEncoder, videoFrames, audioChunks, totalFrames,
                  frameIdx, framePc, flushed, fps, strVars >>

\* Step 2 of the try block, run once every track is decoded: close the
\* decoding context, create the OfflineAudioContext, schedule the sources
\* and reach the first await of the codec check.
SetupAudioGraph(bufs) ==
  /\ audioContext' = "closed"
  /\ IF TotalDurationSamples(totalDuration) = 0
       THEN \* new OfflineAudioContext(2, 0, sampleRate) throws
            /\ Fail
            /\ UNCHANGED << offlineCtx, sources, fps >>
       ELSE /\ offlineCtx' = [length |-> TotalDurationSamples(totalDuration),
                              state |-> "suspended"]
            /\ sources' = GraphSources(bufs, loopCount)
            /\ fps' = RENDER_PRESETS[selectedPreset].fps
            /\ pc' = "probeHEVC"
            /\ UNCHANGED << alerts, isRendering >>

\* faulty variant: the writable is created right after the picker, before
\* any track is decoded
PickerResolveEagerWritable ==
  /\ pc = "picker"
  /\ fileHandle' = "granted"
  /\ showRenderModal' = FALSE
  /\ renderProgress' = NoRat
  /\ renderStatusText' = "preparing"
  /\ trackBuffers' = << >>
  /\ writable' = "open"
  /\ IF Len(playlist) = 0
       THEN \* no track: new OfflineAudioContext(2, 0, sampleRate) throws
            /\ audioContext' = "closed"
            /\ Fail
            /\ UNCHANGED << offlineCtx, sources >>
       ELSE /\ isRendering' = TRUE
            /\ audioContext' = "open"
            /\ pc' = "decode"
            /\ UNCHANGED << offlineCtx, sources, alerts >>
  /\ UNCHANGED << envVars, auxVars, playlist, loopCount, selectedPreset, isPlaying,
                  usedCodec, currentTrackIndex, currentLoopIteration,
                  renders, cancelled, probed, chosenCodec, videoConfig,
                  muxer, videoEncoder, audioEncoder, videoFrames,
                  audioChunks, totalFrames, frameIdx, framePc, flushed,
                  fps, strVars >>

\* the picker returns a handle: state reset, new AudioContext, decode loop
PickerResolve ==
  /\ pc = "picker"
  /\ fileHandle' = "granted"
  /\ showRenderModal' = FALSE
  /\ renderProgress' = NoRat
  /\ renderStatusText' = "preparing"
  /\ trackBuffers' = << >>
  /\ IF Len(playlist) = 0
       THEN \* no track: new OfflineAudioContext(2, 0, sampleRate) throws
            /\ audioContext' = "closed"
            /\ Fail
            /\ UNCHANGED << offlineCtx, sources >>
       ELSE /\ isRendering' = TRUE
            /\ audioContext' = "open"
            /\ pc' = "decode"
            /\ UNCHANGED << offlineCtx, sources, alerts >>
  /\ UNCHANGED << envVars, auxVars, playlist, loopCount, selectedPreset, isPlaying,
                  usedCodec, currentTrackIndex, currentLoopIteration,
                  renders, cancelled, probed, chosenCodec, videoConfig,
                  muxer, writable, videoEncoder, audioEncoder, videoFrames,
                  audioChunks, totalFrames, frameIdx, framePc, flushed,
                  fps, strVars >>

\* one iteration of the decode loop: arrayBuffer() then decodeAudioData()
DecodeTrack(ok) ==
  /\ pc = "decode"
  /\ Len(trackBuffers) < Len(playlist)
  /\ IF ~ok
       THEN /\ Fail
            /\ UNCHANGED << trackBuffers, audioContext, offlineCtx, sources,
                            fps >>
       ELSE LET bufs == Append(trackBuffers,
                               playlist[Len(trackBuffers) + 1].duration)
            IN /\ trackBuffers' = bufs
               /\ IF Len(bufs) < Len(playlist)
                    THEN UNCHANGED << pc, audioContext, offlineCtx, sources,
                                      alerts, isRendering, fps >>
                    ELSE SetupAudioGraph(bufs)
  /\ UNCHANGED << envVars, auxVars, playlist, loopCount, selectedPreset,
                  showRenderModal, isPlaying, renderProgress,
                  renderStatusText, usedCodec, currentTrackIndex,
                  currentLoopIteration, renders, cancelled, fileHandle,
                  probed, chosenCodec, videoConfig, muxer, writable,
                  videoEncoder, audioEncoder, videoFrames, audioChunks,
                  totalFrames, frameIdx, framePc, flushed, strVars >>

\* setUsedCodec(...) and the await of fileHandle.createWritable()
CodecLabel(c) == IF c = "hvc1" THEN "HEVC (H.265)" ELSE "AVC (H.264)"

\* faulty variant: the fallback replaces the configuration but leaves
\* chosenCodec at 'hvc1'
ProbeHEVCKeepsFamily(answer) ==
  /\ pc = "probeHEVC"
  /\ ~hasEncodingAPI => answer = "reject"
  /\ probed' = [probed EXCEPT ![1] = answer]
  /\ IF answer = "supported"
       THEN /\ chosenCodec' = "hvc1"
            /\ videoConfig' = 1
            /\ usedCodec' = CodecLabel("hvc1")
            /\ pc' = "createWritable"
       ELSE /\ chosenCodec' = "hvc1"
            /\ videoConfig' = 2
            /\ pc' = "probeAVC"
            /\ UNCHANGED usedCodec
  /\ UNCHANGED << envVars, auxVars, playlist, loopCount, selectedPreset,
                  showRenderModal, isRendering, isPlaying, renderProgress,
                  renderStatusText, currentTrackIndex, currentLoopIteration,
                  alerts, renders, cancelled, fileHandle, audioContext,
                  trackBuffers, offlineCtx, sources, muxer, writable,
                  videoEncoder, audioEncoder, videoFrames, audioChunks,
                  totalFrames, frameIdx, framePc, flushed, fps, strVars >>

\* VideoEncoder.isConfigSupported(HEVC); "reject" is the promise rejecting,
\* or the expression throwing because VideoEncoder is not defined
ProbeHEVC(answer) ==
  /\ pc = "probeHEVC"
  /\ ~hasEncodingAPI => answer = "reject"
  /\ probed' = [probed EXCEPT ![1] = answer]
  /\ IF answer = "supported"
       THEN /\ chosenCodec' = "hvc1"
            /\ videoConfig' = 1
            /\ usedCodec' = CodecLabel("hvc1")
            /\ pc' = "createWritable"
       ELSE /\ chosenCodec' = "avc1"
            /\ videoConfig' = 2
            /\ pc' = "probeAVC"
            /\ UNCHANGED usedCodec
  /\ UNCHANGED << envVars, auxVars, playlist, loopCount, selectedPreset,
                  showRenderModal, isRendering, isPlaying, renderProgress,
                  renderStatusText, currentTrackIndex, currentLoopIteration,
                  alerts, renders, cancelled, fileHandle, audioContext,
                  trackBuffers, offlineCtx, sources, muxer, writable,
                  videoEncoder, audioEncoder, videoFrames, audioChunks,
                  totalFrames, frameIdx, framePc, flushed, fps, strVars >>

\* VideoEncoder.isConfigSupported(AVC High) inside the catch block
ProbeAVC(answer) ==
  /\ pc = "probeAVC"
  /\ ~hasEncodingAPI => answer = "reject"
  /\ probed' = [probed EXCEPT ![2] = answer]
  /\ IF answer = "reject"
       THEN /\ Fail
            /\ UNCHANGED << videoConfig, usedCodec >>
       ELSE /\ videoConfig' = IF answer = "supported" THEN 2 ELSE 3
            /\ usedCodec' = CodecLabel(chosenCodec)
            /\ pc' = "createWritable"
            /\ UNCHANGED << alerts, isRendering >>
  /\ UNCHANGED << envVars, auxVars, playlist, loopCount, selectedPreset,
                  showRenderModal, isPlaying, renderProgress,
                  renderStatusText, currentTrackIndex, currentLoopIteration,
                  renders, cancelled, fileHandle, audioContext, trackBuffers,
                  offlineCtx, sources, chosenCodec, muxer, writable,
                  videoEncoder, audioEncoder, videoFrames, audioChunks,
                  totalFrames, frameIdx, framePc, flushed, fps, strVars >>

\* the canvas of the always-mounted VisualizerCanvas: canvasRef.current &&
\* canvasRef.current.getCanvas()
canvasReady == TRUE

\* fileHandle.createWritable() settles; on success the muxer and the two
\* encoders are created and configured, every frame's suspend() is
\* registered and offlineCtx.startRendering() is awaited.
CreateWritable(ok) ==
  /\ pc = "createWritable"
  /\ IF ~ok
       THEN /\ Fail
            /\ UNCHANGED << writable, muxer, videoEncoder, audioEncoder,
                            renderStatusText, totalFrames, frameIdx,
                            framePc, offlineCtx >>
       ELSE /\ writable' = "open"
            /\ muxer' = [state |-> "open",
                         codec |-> IF chosenCodec = "hvc1" THEN "hvc1"
                                                           ELSE "avc1"]
            /\ videoEncoder' = "configured"
            /\ audioEncoder' = "configured"
            /\ renderStatusText' = "rendering"
            /\ totalFrames' = TotalFrames(totalDuration, fps)
            /\ frameIdx' = 0
            /\ framePc' = "none"
            /\ offlineCtx' = [offlineCtx EXCEPT !.state = "running"]
            /\ pc' = "rendering"
            /\ UNCHANGED << alerts, isRendering >>
  /\ UNCHANGED << envVars, auxVars, playlist, loopCount, selectedPreset,
                  showRenderModal, isPlaying, renderProgress, usedCodec,
                  currentTrackIndex, currentLoopIteration, renders,
                  cancelled, fileHandle, audioContext, trackBuffers, sources,
                  probed, chosenCodec, videoConfig, videoFrames, audioChunks,
                  flushed, fps, strVars >>

\* faulty variant: resume() is called before createImageBitmap is awaited
FrameCallbackResumesFirst ==
  /\ pc = "rendering"
  /\ offlineCtx.state = "running"
  /\ frameIdx < totalFrames
  /\ framePc' = "bitmap"
  /\ UNCHANGED << envVars, auxVars, playlist, loopCount, selectedPreset,
                  showRenderModal, isRendering, isPlaying, renderStatusText,
                  usedCodec, currentTrackIndex, currentLoopIteration, alerts,
                  pc, renders, cancelled, fileHandle, audioContext,
                  trackBuffers, sources, probed, chosenCodec, videoConfig,
                  muxer, writable, videoEncoder, audioEncoder, videoFrames,
                  audioChunks, totalFrames, flushed, fps, strVars,
                  renderProgress, frameIdx, offlineCtx >>

\* the callback of offlineCtx.suspend(i * frameDuration), first half:
\* sample the analyser, draw, start createImageBitmap(canvas)
FrameCallback ==
  /\ pc = "rendering"
  /\ offlineCtx.state = "running"
  /\ frameIdx < totalFrames
  /\ IF canvasReady
       THEN /\ offlineCtx' = [offlineCtx EXCEPT !.state = "suspended"]
            /\ framePc' = "bitmap"
            /\ UNCHANGED << renderProgress, frameIdx >>
       ELSE /\ renderProgress' = VideoProgress(frameIdx, totalFrames)
            /\ frameIdx' = frameIdx + 1
            /\ UNCHANGED << offlineCtx, framePc >>
  /\ UNCHANGED << envVars, auxVars, playlist, loopCount, selectedPreset,
                  showRenderModal, isRendering, isPlaying, renderStatusText,
                  usedCodec, currentTrackIndex, currentLoopIteration, alerts,
                  pc, renders, cancelled, fileHandle, audioContext,
                  trackBuffers, sources, probed, chosenCodec, videoConfig,
                  muxer, writable, videoEncoder, audioEncoder, videoFrames,
                  audioChunks, totalFrames, flushed, fps, strVars >>

\* what videoEncoder.encode(videoFrame, {keyFrame}) hands to the encoder
EncodedFrame(i, f) ==
  [i |-> i, timestamp |-> FrameTimestamp(i, f), keyFrame |-> KeyFrame(i, f)]

\* second half of the callback: createImageBitmap settled; encode, report
\* progress, resume.  encode() on a closed encoder (or a rejected bitmap)
\* throws inside the callback: the context is never resumed.
FrameSubmit(bitmapOk) ==
  /\ pc = "rendering"
  /\ framePc = "bitmap"
  /\ IF bitmapOk /\ videoEncoder = "configured"
       THEN /\ videoFrames' = Append(videoFrames, EncodedFrame(frameIdx, fps))
            /\ renderProgress' = VideoProgress(frameIdx, totalFrames)
            /\ offlineCtx' = [offlineCtx EXCEPT !.state = "running"]
            /\ frameIdx' = frameIdx + 1
            /\ framePc' = "none"
       ELSE /\ framePc' = "stuck"
            /\ UNCHANGED << videoFrames, renderProgress, offlineCtx,
                            frameIdx >>
  /\ UNCHANGED << envVars, auxVars, playlist, loopCount, selectedPreset,
                  showRenderModal, isRendering, isPlaying, renderStatusText,
                  usedCodec, currentTrackIndex, currentLoopIteration, alerts,
                  pc, renders, cancelled, fileHandle, audioContext,
                  trackBuffers, sources, probed, chosenCodec, videoConfig,
                  muxer, writable, videoEncoder, audioEncoder, audioChunks,
                  totalFrames, flushed, fps, strVars >>

\* faulty variant: the audio loop starts without awaiting the end of
\* offlineCtx.startRendering()
RenderingCompleteNotAwaited ==
  /\ pc = "rendering"
  /\ offlineCtx.state = "running"
  /\ offlineCtx' = [offlineCtx EXCEPT !.state = "closed"]
  /\ IF audioEncoder = "configured"
       THEN /\ audioChunks' = AudioChunksFrom(0, offlineCtx.length)
            /\ renderStatusText' = "packaging"
            /\ pc' = "flushVideo"
            /\ UNCHANGED << alerts, isRendering >>
       ELSE /\ renderStatusText' = "audio"
            /\ Fail
            /\ UNCHANGED audioChunks
  /\ UNCHANGED << envVars, auxVars, playlist, loopCount, selectedPreset,
                  showRenderModal, isPlaying, renderProgress, usedCodec,
                  currentTrackIndex, currentLoopIteration, renders,
                  cancelled, fileHandle, audioContext, trackBuffers, sources,
                  probed, chosenCodec, videoConfig, muxer, writable,
                  videoEncoder, audioEncoder, videoFrames, totalFrames,
                  frameIdx, framePc, flushed, fps, strVars >>

\* offlineCtx.startRendering() resolves: the audio re-chunking loop runs to
\* its end (or to the first encode() that throws), then videoEncoder.flush()
\* is awaited.
RenderingComplete ==
  /\ pc = "rendering"
  /\ offlineCtx.state = "running"
  /\ frameIdx = totalFrames
  /\ offlineCtx' = [offlineCtx EXCEPT !.state = "closed"]
  /\ IF audioEncoder = "configured"
       THEN /\ audioChunks' = AudioChunksFrom(0, offlineCtx.length)
            /\ renderStatusText' = "packaging"
            /\ pc' = "flushVideo"
            /\ UNCHANGED << alerts, isRendering >>
       ELSE /\ renderStatusText' = "audio"
            /\ Fail
            /\ UNCHANGED audioChunks
  /\ UNCHANGED << envVars, auxVars, playlist, loopCount, selectedPreset,
                  showRenderModal, isPlaying, renderProgress, usedCodec,
                  currentTrackIndex, currentLoopIteration, renders,
                  cancelled, fileHandle, audioContext, trackBuffers, sources,
                  probed, chosenCodec, videoConfig, muxer, writable,
                  videoEncoder, audioEncoder, videoFrames, totalFrames,
                  frameIdx, framePc, flushed, fps, strVars >>

\* await videoEncoder.flush()
FlushVideo(ok) ==
  /\ pc = "flushVideo"
  /\ IF ok /\ videoEncoder = "configured"
       THEN /\ flushed' = flushed \cup {"video"}
            /\ pc' = "flushAudio"
            /\ UNCHANGED << alerts, isRendering >>
       ELSE /\ Fail
            /\ UNCHANGED flushed
  /\ UNCHANGED << envVars, auxVars, playlist, loopCount, selectedPreset,
                  showRenderModal, isPlaying, renderProgress,
                  renderStatusText, usedCodec, currentTrackIndex,
                  currentLoopIteration, renders, cancelled, fileHandle,
                  audioContext, trackBuffers, offlineCtx, sources, probed,
                  chosenCodec, videoConfig, muxer, writable, videoEncoder,
                  audioEncoder, videoFrames, audioChunks, totalFrames,
                  frameIdx, framePc, fps, strVars >>

\* await audioEncoder.flush(); muxer.finalize(); setRenderProgress(100);
\* the success alert; finally setIsRendering(false).  The writable handed to
\* the muxer's target is referenced nowhere else and close() is never
\* called on it.
FlushAudio(ok) ==
  /\ pc = "flushAudio"
  /\ IF ok /\ audioEncoder = "configured"
       THEN /\ flushed' = flushed \cup {"audio"}
            /\ muxer' = [muxer EXCEPT !.state = "finalized"]
            /\ renderProgress' = Rat(100, 1)
            /\ Alert("success")
            /\ isRendering' = FALSE
            /\ pc' = "done"
       ELSE /\ Fail
            /\ UNCHANGED << flushed, muxer, renderProgress >>
  /\ UNCHANGED << envVars, auxVars, playlist, loopCount, selectedPreset,
                  showRenderModal, isPlaying, renderStatusText, usedCodec,
                  currentTrackIndex, currentLoopIteration, renders,
                  cancelled, fileHandle, audioContext, trackBuffers,
                  offlineCtx, sources, probed, chosenCodec, videoConfig,
                  writable, videoEncoder, audioEncoder, videoFrames,
                  audioChunks, totalFrames, frameIdx, framePc, fps, strVars >>

\* the VideoEncoder's error callback: the encoder is closed, an alert shown.
\* cause "config": configure() found the configuration unsupported, which
\* can only happen to the one configuration that is configured without a
\* positive isConfigSupported answer; cause "encode": any later error.
VideoEncoderError(cause) ==
  /\ videoEncoder = "configured"
  /\ pc \in {"rendering", "flushVideo", "flushAudio"}
  /\ cause = "config" => probed[videoConfig] # "supported" /\ videoFrames = << >>
  /\ videoEncoder' = IF cause = "config" THEN "rejected" ELSE "closed"
  /\ Alert("encodeError")
  /\ UNCHANGED << envVars, auxVars, playlist, loopCount, selectedPreset,
                  showRenderModal, isRendering, isPlaying, renderProgress,
                  renderStatusText, usedCodec, currentTrackIndex,
                  currentLoopIteration, pc, renders, cancelled, fileHandle,
                  audioContext, trackBuffers, offlineCtx, sources, probed,
                  chosenCodec, videoConfig, muxer, writable, audioEncoder,
                  videoFrames, audioChunks, totalFrames, frameIdx, framePc,
                  flushed, fps, strVars >>

\* the AudioEncoder's error callback: the encoder is closed, console only
AudioEncoderError ==
  /\ audioEncoder = "configured"
  /\ pc \in {"rendering", "flushVideo", "flushAudio"}
  /\ audioEncoder' = "closed"
  /\ UNCHANGED << envVars, auxVars, uiVars, fileHandle, audioContext, trackBuffers,
                  offlineCtx, sources, probed, chosenCodec, videoConfig,
                  muxer, writable, videoEncoder, videoFrames, audioChunks,
                  totalFrames, frameIdx, framePc, flushed, fps, strVars >>

\* cancelRendering: confirm(...) accepted, window.location.reload().  The
\* page and every object of the job are discarded; the writable is dropped
\* without close().
Unloaded(x) == IF x \in {"none", "closed", "rejected"} THEN x ELSE "unloaded"

cancelRendering ==
  /\ isRendering
  /\ pc \notin {"idle", "picker", "done", "failed", "reloaded"}
  /\ cancelled' = TRUE
  /\ pc' = "reloaded"
  /\ isRendering' = FALSE
  /\ showRenderModal' = FALSE
  /\ renderProgress' = NoRat
  /\ renderStatusText' = ""
  /\ usedCodec' = ""
  /\ audioContext' = Unloaded(audioContext)
  /\ offlineCtx' = [offlineCtx EXCEPT !.state = Unloaded(@)]
  /\ muxer' = [muxer EXCEPT !.state = Unloaded(@)]
  /\ writable' = Unloaded(writable)
  /\ videoEncoder' = Unloaded(videoEncoder)
  /\ audioEncoder' = Unloaded(audioEncoder)
  /\ framePc' = "none"
  /\ UNCHANGED << envVars, auxVars, playlist, loopCount, selectedPreset, isPlaying,
                  currentTrackIndex, currentLoopIteration, alerts, renders,
                  fileHandle, trackBuffers, sources, probed, chosenCodec,
                  videoConfig, videoFrames, audioChunks, totalFrames,
                  frameIdx, flushed, fps, strVars >>

Next ==
  \/ initiateRender
  \/ \E p \in PresetIds : setSelectedPreset(p)
  \/ closeRenderModal
  \/ startOfflineRendering
  \/ PickerReject
  \/ PickerResolve
  \/ \E ok \in BOOLEAN : DecodeTrack(ok)
  \/ \E a \in {"supported", "unsupported", "reject"} : ProbeHEVC(a)
  \/ \E a \in {"supported", "unsupported", "reject"} : ProbeAVC(a)
  \/ \E ok \in BOOLEAN : CreateWritable(ok)
  \/ FrameCallback
  \/ \E ok \in BOOLEAN : FrameSubmit(ok)
  \/ RenderingComplete
  \/ \E ok \in BOOLEAN : FlushVideo(ok)
  \/ \E ok \in BOOLEAN : FlushAudio(ok)
  \/ \E c \in {"config", "encode"} : VideoEncoderError(c)
  \/ AudioEncoderError
  \/ cancelRendering

Spec == Init /\ [][Next]_vars

\* The steps the runtime takes by itself once they are due: promise
\* settlements and the callbacks of the graph.  What the user does (opening
\* the modal, confirming, answering the save dialogue, cancelling) and what
\* goes wrong in an encoder are not owed to anyone.
RuntimeStep ==
  \/ \E ok \in BOOLEAN : DecodeTrack(ok)
  \/ \E a \in {"supported", "unsupported", "reject"} : ProbeHEVC(a)
  \/ \E a \in {"supported", "unsupported", "reject"} : ProbeAVC(a)
  \/ \E ok \in BOOLEAN : CreateWritable(ok)
  \/ FrameCallback
  \/ \E ok \in BOOLEAN : FrameSubmit(ok)
  \/ RenderingComplete
  \/ \E ok \in BOOLEAN : FlushVideo(ok)
  \/ \E ok \in BOOLEAN : FlushAudio(ok)

\* the offline pipeline under fair scheduling of the runtime's steps
SpecFair == Init /\ [][Next]_vars /\ WF_vars(RuntimeStep)

\* ------------------------------- offline: the audio compositor on its own
\* Step 2 of startOfflineRendering with durations in microseconds, so that
\* Math.ceil(totalDuration * sampleRate) has something to round.
MaxBuffers == 3
DurationsUs == {1, 21, 333333, 2500010}

\* Math.ceil(seconds * 48000) for a duration in microseconds
\* (48000 / 1000000 = 6 / 125)
SamplesOfMicros(us) == CeilDiv(us * 6, 125)

CompositorPlaylists ==
  { [k \in 1..n |-> Track(k, f[k])] :
      n \in 0..MaxBuffers, f \in [1..MaxBuffers -> DurationsUs] }

\* every track is decoded; the OfflineAudioContext is not created yet
CompositorInit ==
  /\ hasSaveFilePicker = TRUE
  /\ hasEncodingAPI = TRUE
  /\ typeSupport = [k \in 1..Len(supportedTypes) |-> k >= 3]
  /\ mimeType = ""
  /\ renderFilename = DefaultFilename
  /\ suggestedName = << >>
  /\ playlist \in CompositorPlaylists
  /\ loopCount \in 1..MaxLoop
  /\ selectedPreset = "balanced"
  /\ showRenderModal = FALSE
  /\ isRendering = TRUE
  /\ isPlaying = FALSE
  /\ renderProgress = NoRat
  /\ renderStatusText = "preparing"
  /\ usedCodec = ""
  /\ currentTrackIndex = 0
  /\ currentLoopIteration = 0
  /\ alerts = {}
  /\ pc = "decode"
  /\ renders = 0
  /\ cancelled = FALSE
  /\ fileHandle = "granted"
  /\ audioContext = "open"
  /\ trackBuffers = [k \in 1..Len(playlist) |-> playlist[k].duration]
  /\ offlineCtx = [length |-> 0, state |-> "none"]
  /\ sources = << >>
  /\ probed = [k \in 1..3 |-> "unchecked"]
  /\ chosenCodec = "none"
  /\ videoConfig = 0
  /\ muxer = [state |-> "none", codec |-> "none"]
  /\ writable = "none"
  /\ videoEncoder = "none"
  /\ audioEncoder = "none"
  /\ videoFrames = << >>
  /\ audioChunks = << >>
  /\ totalFrames = 0
  /\ frameIdx = 0
  /\ framePc = "none"
  /\ flushed = {}
  /\ fps = 0
  /\ StreamInit

\* new OfflineAudioContext(2, totalDurationSamples, sampleRate) and the
\* scheduling loops over loopCount x trackBuffers
ComposeAudio ==
  /\ pc = "decode"
  /\ offlineCtx.state = "none"
  /\ Len(trackBuffers) = Len(playlist)
  /\ audioContext' = "closed"
  /\ IF SamplesOfMicros(totalDuration) = 0
       THEN /\ Fail
            /\ UNCHANGED << offlineCtx, sources, fps >>
       ELSE /\ offlineCtx' = [length |-> SamplesOfMicros(totalDuration),
                              state |-> "suspended"]
            /\ sources' = GraphSources(trackBuffers, loopCount)
            /\ fps' = RENDER_PRESETS[selectedPreset].fps
            /\ pc' = "probeHEVC"
            /\ UNCHANGED << alerts, isRendering >>
  /\ UNCHANGED << envVars, auxVars, playlist, loopCount, selectedPreset,
                  showRenderModal, isPlaying, renderProgress,
                  renderStatusText, usedCodec, currentTrackIndex,
                  currentLoopIteration, renders, cancelled, fileHandle,
                  trackBuffers, probed, chosenCodec, videoConfig, muxer,
                  writable, videoEncoder, audioEncoder, videoFrames,
                  audioChunks, totalFrames, frameIdx, framePc, flushed,
                  strVars >>

SpecCompositor == CompositorInit /\ [][ComposeAudio]_vars

\* ------------------------------------ codec negotiation on its own
\* Both pipelines' negotiation over every combination of answers: the
\* offline call stands before its first capability check, the streaming
\* call before its loop over supportedTypes.
NegotiationInit ==
  /\ hasSaveFilePicker = TRUE
  /\ hasEncodingAPI \in BOOLEAN
  /\ typeSupport \in [1..Len(supportedTypes) -> BOOLEAN]
  /\ mimeType = ""
  /\ renderFilename = DefaultFilename
  /\ suggestedName = << >>
  /\ playlist = << Track(1, 50) >>
  /\ loopCount = 1
  /\ selectedPreset = "balanced"
  /\ showRenderModal = FALSE
  /\ isRendering = TRUE
  /\ isPlaying = FALSE
  /\ renderProgress = NoRat
  /\ renderStatusText = "preparing"
  /\ usedCodec = ""
  /\ currentTrackIndex = 0
  /\ currentLoopIteration = 0
  /\ alerts = {}
  /\ pc = "probeHEVC"
  /\ renders = 0
  /\ cancelled = FALSE
  /\ fileHandle = "granted"
  /\ audioContext = "closed"
  /\ trackBuffers = << 50 >>
  /\ offlineCtx = [length |-> TotalDurationSamples(50), state |-> "suspended"]
  /\ sources = GraphSources(<< 50 >>, 1)
  /\ probed = [k \in 1..3 |-> "unchecked"]
  /\ chosenCodec = "none"
  /\ videoConfig = 0
  /\ muxer = [state |-> "none", codec |-> "none"]
  /\ writable = "none"
  /\ videoEncoder = "none"
  /\ audioEncoder = "none"
  /\ videoFrames = << >>
  /\ audioChunks = << >>
  /\ totalFrames = 0
  /\ frameIdx = 0
  /\ framePc = "none"
  /\ flushed = {}
  /\ fps = RENDER_PRESETS["balanced"].fps
  /\ StreamInit

\* the codec selection of startRendering, lines 298-324
SelectMime ==
  /\ mimeType = ""
  /\ mimeType' = SelectMimeType(typeSupport)
  /\ UNCHANGED << envVars, renderFilename, suggestedName, uiVars, offVars,
                  strVars >>

NegotiationNext ==
  \/ SelectMime
  \/ \E a \in {"supported", "unsupported", "reject"} : ProbeHEVC(a)
  \/ \E a \in {"supported", "unsupported", "reject"} : ProbeAVC(a)

SpecNegotiation == NegotiationInit /\ [][NegotiationNext]_vars

\* ============================================ streaming pipeline: the state
\* renders         number of startRendering calls that got past the
\*                 capability check; call c acquires writable c
\* calls[c]        position of call c: "none" | "picker" | "createWritable"
\*                 | "returned"
\* mediaRecorderRef    0 (null) or the number of the recorder it holds
\* mediaRecorder[r]    recorder of call r: "none" | "recording" | "inactive"
\* onstop[r]       recorder r has its onstop handler attached
\* writableStreamRef   0 (null) or the number of the writable it holds;
\*                 writeQueueRef is reset in the same step, so it holds the
\*                 chain of the same number
\* streams[s]      writable s:
\*                   "open"          accepts writes
\*                   "closing"       close() requested or in flight
\*                   "closingAbort"  close() in flight, abort() waiting for it
\*                   "erroring"      abort() waiting for the write in flight
\*                   "errored"       aborted, or a write or the close failed
\*                   "closed"        close() succeeded: the file is complete
\* queues[r]       promise chain r: the blobs whose closure has not run yet,
\*                 and the write() calls of its closures that have not
\*                 settled, each with the sink it was issued to
\* stopPc[r]       position of recorder r's onstop handler; stopRef[r] is the
\*                 chain it awaits, then the writable it closes
\* cancelPc        position of cancelRendering; cancelRef the writable whose
\*                 abort() it awaits
\* events          tasks queued by MediaRecorder.stop(): "data" then "stop"
\* chunksEmitted   blobs are numbered in the order the recorders emit them;
\*                 the numbering restarts with a recording that finds
\*                 nothing of an earlier one left
\* sinkLog         the write() calls issued to the sinks since then, in the
\*                 order of the calls

StreamVal(ref) == IF ref = 0 THEN "none" ELSE streams[ref]

\* the write() calls that have not settled
InFlight == UNION { queues[r].inflight : r \in 1..MaxRenders }

Busy(s) == \E w \in InFlight : w.sink = s

\* the native file dialogue is open: the page receives no input
DialogOpen == \E c \in 1..MaxRenders : calls[c] = "picker"

\* faulty variant: each closure starts its write without waiting for the
\* previous one
DrainNoWait(q, s, st) ==
  IF q.pending = << >> THEN q
  ELSE IF st = "open"
         THEN [pending |-> Tail(q.pending),
               inflight |-> q.inflight
                              \cup {[blob |-> Head(q.pending), sink |-> s]}]
         ELSE [pending |-> << >>, inflight |-> q.inflight]

\* faulty variant: a write() that rejects leaves the chain rejected, so the
\* closures behind it never run
DrainBlockedByFailure(q, s, st) ==
  IF q.inflight # {} \/ q.pending = << >> THEN q
  ELSE IF st = "open"
         THEN [pending |-> Tail(q.pending),
               inflight |-> {[blob |-> Head(q.pending), sink |-> s]}]
         ELSE q

\* Run the chain as far as it goes without waiting: the next closure runs
\* once the previous one has settled; it awaits write(blob) on the writable
\* s that writableStreamRef holds at that moment if it is open, while on any
\* other stream write() rejects at once, the rejection is caught and the
\* following closure runs.
Drain(q, s, st) ==
  IF q.inflight # {} \/ q.pending = << >> THEN q
  ELSE IF st = "open"
         THEN [pending |-> Tail(q.pending),
               inflight |-> {[blob |-> Head(q.pending), sink |-> s]}]
         ELSE [pending |-> << >>, inflight |-> {}]

Started(q, q2) == q2.inflight \ q.inflight

RECURSIVE SetToSeq(_)
SetToSeq(S) ==
  IF S = {} THEN << >>
  ELSE LET m == CHOOSE x \in S : \A y \in S : x.blob <= y.blob
       IN << m >> \o SetToSeq(S \ {m})

\* ondataavailable: if (e.data.size > 0 && writableStreamRef.current)
\* chain a closure for the blob onto writeQueueRef.current
OnDataAvailable(size) ==
  /\ chunksEmitted' = chunksEmitted + 1
  /\ IF size > 0 /\ writableStreamRef # 0
       THEN LET r == writableStreamRef
                q == [queues[r] EXCEPT
                        !.pending = Append(@, chunksEmitted + 1)]
                q2 == Drain(q, r, streams[r])
            IN /\ queues' = [queues EXCEPT ![r] = q2]
               /\ sinkLog' = sinkLog \o SetToSeq(Started(queues[r], q2))
       ELSE UNCHANGED << queues, sinkLog >>

\* a timeslice of recorder r elapses (start(1000)): dataavailable fires
DataAvailable(r, size) ==
  /\ mediaRecorder[r] = "recording"
  /\ chunksEmitted < MaxChunks
  /\ OnDataAvailable(size)
  /\ UNCHANGED << envVars, auxVars, uiVars, offVars, mediaRecorderRef, mediaRecorder,
                  onstop, writableStreamRef, streams, stopPc, stopRef,
                  cancelPc, cancelRef, events, gain, currentTime, calls >>

\* the dataavailable task queued by MediaRecorder.stop()
FinalData(size) ==
  /\ events # << >>
  /\ Head(events).kind = "data"
  /\ events' = Tail(events)
  /\ OnDataAvailable(size)
  /\ UNCHANGED << envVars, auxVars, uiVars, offVars, mediaRecorderRef, mediaRecorder,
                  onstop, writableStreamRef, streams, stopPc, stopRef,
                  cancelPc, cancelRef, gain, currentTime, calls >>

\* position of the write() call w in the order of the calls
LogIndex(w) == CHOOSE k \in 1..Len(sinkLog) : sinkLog[k] = w

\* the sink settles a write() of chain r: the oldest unsettled call on its
\* writable.  A failed write errors the stream; an abort() that was waiting
\* for the writes in flight then takes effect.
WriteSettle(r, w, ok) ==
  /\ w \in queues[r].inflight
  /\ \A v \in InFlight : v.sink = w.sink => LogIndex(w) <= LogIndex(v)
  /\ LET s == w.sink
         others == \E v \in InFlight \ {w} : v.sink = s
         st == IF streams[s] = "erroring"
                 THEN (IF others THEN "erroring" ELSE "errored")
               ELSE IF ~ok /\ streams[s] \in {"open", "closing"}
                 THEN "errored"
               ELSE streams[s]
         strs == [streams EXCEPT ![s] = st]
         q == [queues[r] EXCEPT !.inflight = @ \ {w}]
         q2 == Drain(q, writableStreamRef,
                     IF writableStreamRef = 0 THEN "none"
                     ELSE strs[writableStreamRef])
     IN /\ streams' = strs
        /\ queues' = [queues EXCEPT ![r] = q2]
        /\ sinkLog' = sinkLog \o SetToSeq(Started(q, q2))
  /\ UNCHANGED << envVars, auxVars, uiVars, offVars, mediaRecorderRef, mediaRecorder,
                  onstop, writableStreamRef, stopPc, stopRef, cancelPc,
                  cancelRef, events, gain, chunksEmitted, currentTime,
                  calls >>

\* startRendering up to its first await (showSaveFilePicker).  The modal's
\* start button is reachable while the modal is shown, the progress overlay
\* (which lies above it) is not, and no file dialogue is open.
startRendering ==
  /\ showRenderModal
  /\ ~isRendering
  /\ ~DialogOpen
  /\ renders < MaxRenders
  /\ IF ~hasSaveFilePicker
       THEN /\ Alert("unsupported")
            /\ UNCHANGED << renders, cancelled, calls, suggestedName >>
       ELSE /\ renders' = renders + 1
            /\ calls' = [calls EXCEPT ![renders + 1] = "picker"]
            /\ cancelled' = FALSE
            /\ alerts' = {}
            /\ suggestedName' = SuggestedName(renderFilename)
  /\ UNCHANGED << envVars, mimeType, renderFilename, playlist, loopCount, selectedPreset,
                  showRenderModal, isRendering, isPlaying, renderProgress,
                  renderStatusText, usedCodec, currentTrackIndex,
                  currentLoopIteration, pc, offVars, mediaRecorderRef,
                  mediaRecorder, onstop, writableStreamRef, streams, queues,
                  stopPc, stopRef, cancelPc, cancelRef, events, gain,
                  chunksEmitted, sinkLog, currentTime >>

\* nothing of an earlier recording is left: no recorder records, no recorder
\* task is queued, every chain has settled
Quiescent ==
  /\ \A r \in 1..MaxRenders : mediaRecorder[r] # "recording"
  /\ events = << >>
  /\ \A r \in 1..MaxRenders :
       queues[r].pending = << >> /\ queues[r].inflight = {}

\* faulty variant: the catch block puts the playback position back to the
\* start before it returns
StreamPickerRejectCleansUp(c, name) ==
  /\ calls[c] = "picker"
  /\ calls' = [calls EXCEPT ![c] = "returned"]
  /\ currentTrackIndex' = 0
  /\ currentLoopIteration' = 0
  /\ IF name = "AbortError" THEN UNCHANGED alerts
     ELSE IF name = "SecurityError" THEN Alert("securityError")
     ELSE Alert("pickerError")
  /\ UNCHANGED << envVars, auxVars, playlist, loopCount, selectedPreset,
                  showRenderModal, isRendering, isPlaying, renderProgress,
                  renderStatusText, usedCodec, pc, renders, cancelled,
                  offVars,
                  mediaRecorderRef, mediaRecorder, onstop, writableStreamRef,
                  streams, queues, stopPc, stopRef, cancelPc, cancelRef,
                  events, gain, chunksEmitted, sinkLog, currentTime >>

\* showSaveFilePicker of call c rejects: AbortError returns silently,
\* anything else alerts; in both cases rendering does not start
StreamPickerReject(c, name) ==
  /\ calls[c] = "picker"
  /\ calls' = [calls EXCEPT ![c] = "returned"]
  /\ IF name = "AbortError" THEN UNCHANGED alerts
     ELSE IF name = "SecurityError" THEN Alert("securityError")
     ELSE Alert("pickerError")
  /\ UNCHANGED << envVars, auxVars, playlist, loopCount, selectedPreset,
                  showRenderModal, isRendering, isPlaying, renderProgress,
                  renderStatusText, usedCodec, currentTrackIndex,
                  currentLoopIteration, pc, renders, cancelled, offVars,
                  mediaRecorderRef, mediaRecorder, onstop, writableStreamRef,
                  streams, queues, stopPc, stopRef, cancelPc, cancelRef,
                  events, gain, chunksEmitted, sinkLog, currentTime >>

\* showSaveFilePicker of call c resolves: await handle.createWritable().
\* The user needs seconds in the file dialogue: the tasks queued by an
\* earlier MediaRecorder.stop(), the continuations of an earlier onstop or
\* cancelRendering and an earlier call's createWritable(), which wait on
\* local I/O only, have run by then.
StreamPickerResolve(c) ==
  /\ calls[c] = "picker"
  /\ events = << >>
  /\ \A r \in 1..MaxRenders : stopPc[r] = "none"
  /\ cancelPc = "none"
  /\ \A d \in 1..MaxRenders : calls[d] # "createWritable"
  /\ calls' = [calls EXCEPT ![c] = "createWritable"]
  /\ UNCHANGED << envVars, auxVars, playlist, loopCount, selectedPreset,
                  showRenderModal, isRendering, isPlaying, renderProgress,
                  renderStatusText, usedCodec, currentTrackIndex,
                  currentLoopIteration, alerts, pc, renders, cancelled,
                  offVars, mediaRecorderRef, mediaRecorder, onstop,
                  writableStreamRef, streams, queues, stopPc, stopRef,
                  cancelPc, cancelRef, events, gain, chunksEmitted, sinkLog,
                  currentTime >>

\* createWritable() of call c settles.  On success the rest of
\* startRendering runs: state and refs are set, the speakers muted, the
\* recorder constructed (recorderOk = FALSE: the constructor throws), its
\* handlers attached, recording and playback started.  Where MediaRecorder
\* is not defined, MediaRecorder.isTypeSupported(type) throws outside every
\* try block: the call ends there, after setIsRendering(true) and the mute.
StreamCreateWritable(c, ok, recorderOk) ==
  /\ calls[c] = "createWritable"
  /\ ~hasEncodingAPI => ~recorderOk
  /\ calls' = [calls EXCEPT ![c] = "returned"]
  /\ IF ~ok
       THEN /\ Alert("pickerError")
            /\ UNCHANGED << mimeType, showRenderModal, isRendering, isPlaying,
                            renderProgress, renderStatusText,
                            currentTrackIndex, currentLoopIteration,
                            mediaRecorderRef, mediaRecorder, onstop,
                            writableStreamRef, streams, queues, gain,
                            currentTime, chunksEmitted, sinkLog >>
       ELSE /\ showRenderModal' = FALSE
            /\ renderProgress' = NoRat
            /\ renderStatusText' = "streaming"
            /\ writableStreamRef' = c
            /\ streams' = [streams EXCEPT ![c] = "open"]
            /\ queues' = [queues EXCEPT
                            ![c] = [pending |-> << >>, inflight |-> {}]]
            /\ currentTrackIndex' = 0
            /\ currentLoopIteration' = 0
            /\ gain' = 0
            /\ currentTime' = 0
            /\ chunksEmitted' = IF Quiescent THEN 0 ELSE chunksEmitted
            /\ sinkLog' = IF Quiescent THEN << >> ELSE sinkLog
            /\ mimeType' = IF hasEncodingAPI THEN SelectMimeType(typeSupport)
                                             ELSE mimeType
            /\ IF recorderOk
                 THEN /\ mediaRecorderRef' = c
                      /\ mediaRecorder' = [mediaRecorder EXCEPT
                                             ![c] = "recording"]
                      /\ onstop' = [onstop EXCEPT ![c] = TRUE]
                      /\ isRendering' = TRUE
                      /\ isPlaying' = TRUE
                      /\ UNCHANGED alerts
                 ELSE /\ IF hasEncodingAPI
                           THEN Alert("recorderInit") /\ isRendering' = FALSE
                           ELSE UNCHANGED alerts /\ isRendering' = TRUE
                      /\ UNCHANGED << mediaRecorderRef, mediaRecorder,
                                      onstop, isPlaying >>
  /\ UNCHANGED << envVars, renderFilename, suggestedName, playlist, loopCount, selectedPreset, usedCodec,
                  pc, renders, cancelled, offVars, stopPc, stopRef,
                  cancelPc, cancelRef, events >>

\* stopRenderingAndDownload: no-op unless the recorder is active
RecorderActive ==
  /\ mediaRecorderRef # 0
  /\ mediaRecorder[mediaRecorderRef] \notin {"none", "inactive"}

\* MediaRecorder.stop() on the recorder mediaRecorderRef holds
StopRecorder ==
  /\ mediaRecorder' = [mediaRecorder EXCEPT ![mediaRecorderRef] = "inactive"]
  /\ events' = events \o << [kind |-> "data", rec |-> mediaRecorderRef],
                            [kind |-> "stop", rec |-> mediaRecorderRef] >>

\* faulty variant: the loop test is off by one, a further pass is played
handleTrackEndExtraLoop ==
  /\ isPlaying
  /\ pc # "effectError"
  /\ currentTrackIndex < Len(playlist)
  /\ IF currentTrackIndex < Len(playlist) - 1
       THEN /\ currentTrackIndex' = currentTrackIndex + 1
            /\ currentTime' = 0
            /\ UNCHANGED << currentLoopIteration, isPlaying, mediaRecorder,
                            events >>
       ELSE IF currentLoopIteration < loopCount
         THEN /\ currentLoopIteration' = currentLoopIteration + 1
              /\ currentTrackIndex' = 0
              /\ currentTime' = 0
              /\ UNCHANGED << isPlaying, mediaRecorder, events >>
         ELSE /\ isPlaying' = FALSE
              /\ currentTime' = playlist[currentTrackIndex + 1].duration
              /\ UNCHANGED << currentTrackIndex, currentLoopIteration >>
              /\ IF isRendering /\ RecorderActive
                   THEN StopRecorder
                   ELSE UNCHANGED << mediaRecorder, events >>
  /\ UNCHANGED << envVars, auxVars, playlist, loopCount, selectedPreset,
                  showRenderModal, isRendering, renderProgress,
                  renderStatusText, usedCodec, alerts, pc, renders,
                  cancelled, offVars, mediaRecorderRef, onstop,
                  writableStreamRef, streams, queues, stopPc, stopRef,
                  cancelPc, cancelRef, gain, chunksEmitted, sinkLog, calls >>

\* the audio element's ended event: playback has reached the end of the
\* current track.  A change of track or loop makes the sync effect load the
\* next source, which puts the playback position back to 0; after the last
\* track the position stays at its end.
handleTrackEnd ==
  /\ isPlaying
  /\ pc # "effectError"
  /\ currentTrackIndex < Len(playlist)
  /\ IF currentTrackIndex < Len(playlist) - 1
       THEN /\ currentTrackIndex' = currentTrackIndex + 1
            /\ currentTime' = 0
            /\ UNCHANGED << currentLoopIteration, isPlaying, mediaRecorder,
                            events >>
       ELSE IF currentLoopIteration < loopCount - 1
         THEN /\ currentLoopIteration' = currentLoopIteration + 1
              /\ currentTrackIndex' = 0
              /\ currentTime' = 0
              /\ UNCHANGED << isPlaying, mediaRecorder, events >>
         ELSE /\ isPlaying' = FALSE
              /\ currentTime' = playlist[currentTrackIndex + 1].duration
              /\ UNCHANGED << currentTrackIndex, currentLoopIteration >>
              /\ IF isRendering /\ RecorderActive
                   THEN StopRecorder
                   ELSE UNCHANGED << mediaRecorder, events >>
  /\ UNCHANGED << envVars, auxVars, playlist, loopCount, selectedPreset,
                  showRenderModal, isRendering, renderProgress,
                  renderStatusText, usedCodec, alerts, pc, renders,
                  cancelled, offVars, mediaRecorderRef, onstop,
                  writableStreamRef, streams, queues, stopPc, stopRef,
                  cancelPc, cancelRef, gain, chunksEmitted, sinkLog, calls >>

\* the tail of recorder r's onstop: reset the UI state and unmute
ResetAfterStop(r) ==
  /\ isRendering' = FALSE
  /\ isPlaying' = FALSE
  /\ renderProgress' = NoRat
  /\ gain' = 1
  /\ stopPc' = [stopPc EXCEPT ![r] = "none"]

\* the stop task queued by MediaRecorder.stop(); onstop (if still attached)
\* runs up to await writeQueueRef.current
StopEvent ==
  /\ events # << >>
  /\ Head(events).kind = "stop"
  /\ events' = Tail(events)
  /\ LET r == Head(events).rec
     IN IF ~onstop[r]
          THEN UNCHANGED << isRendering, isPlaying, renderProgress,
                            renderStatusText, gain, stopPc, stopRef >>
          ELSE /\ renderStatusText' = "finishing"
               /\ IF writableStreamRef # 0
                    THEN /\ renderProgress' = Rat(100, 1)
                         /\ stopPc' = [stopPc EXCEPT ![r] = "awaitQueue"]
                         /\ stopRef' = [stopRef EXCEPT
                                          ![r] = writableStreamRef]
                         /\ UNCHANGED << isRendering, isPlaying, gain >>
                    ELSE /\ ResetAfterStop(r)
                         /\ UNCHANGED stopRef
  /\ UNCHANGED << envVars, auxVars, playlist, loopCount, selectedPreset,
                  showRenderModal, usedCodec, currentTrackIndex,
                  currentLoopIteration, alerts, pc, renders, cancelled,
                  offVars, mediaRecorderRef, mediaRecorder, onstop,
                  writableStreamRef, streams, queues, cancelPc, cancelRef,
                  chunksEmitted, sinkLog, currentTime, calls >>

QueueSettled(r) == queues[r].pending = << >> /\ queues[r].inflight = {}

\* faulty variant: onstop calls close() without awaiting the write queue
StopQueueNotAwaited(r) ==
  /\ stopPc[r] = "awaitQueue"
  /\ IF streams[writableStreamRef] = "open"
       THEN /\ streams' = [streams EXCEPT ![writableStreamRef] = "closing"]
            /\ stopPc' = [stopPc EXCEPT ![r] = "awaitClose"]
            /\ stopRef' = [stopRef EXCEPT ![r] = writableStreamRef]
            /\ UNCHANGED << alerts, isRendering, isPlaying, renderProgress,
                            gain >>
       ELSE /\ Alert("closeError")
            /\ ResetAfterStop(r)
            /\ UNCHANGED << streams, stopRef >>
  /\ UNCHANGED << envVars, auxVars, playlist, loopCount, selectedPreset,
                  showRenderModal, renderStatusText, usedCodec,
                  currentTrackIndex, currentLoopIteration, pc, renders,
                  cancelled, offVars, mediaRecorderRef, mediaRecorder,
                  onstop, writableStreamRef, queues, cancelPc, cancelRef,
                  events, chunksEmitted, sinkLog, currentTime, calls >>

\* faulty variant: a close() that rejects at once is swallowed without the
\* "may be corrupt" alert
StopQueueSettledSilent(r) ==
  /\ stopPc[r] = "awaitQueue"
  /\ QueueSettled(stopRef[r])
  /\ IF streams[writableStreamRef] = "open"
       THEN /\ streams' = [streams EXCEPT ![writableStreamRef] = "closing"]
            /\ stopPc' = [stopPc EXCEPT ![r] = "awaitClose"]
            /\ stopRef' = [stopRef EXCEPT ![r] = writableStreamRef]
            /\ UNCHANGED << alerts, isRendering, isPlaying, renderProgress,
                            gain >>
       ELSE /\ ResetAfterStop(r)
            /\ UNCHANGED << alerts, streams, stopRef >>
  /\ UNCHANGED << envVars, auxVars, playlist, loopCount, selectedPreset,
                  showRenderModal, renderStatusText, usedCodec,
                  currentTrackIndex, currentLoopIteration, pc, renders,
                  cancelled, offVars, mediaRecorderRef, mediaRecorder,
                  onstop, writableStreamRef, queues, cancelPc, cancelRef,
                  events, chunksEmitted, sinkLog, currentTime, calls >>

\* onstop of recorder r after await writeQueueRef.current: close() is called
\* on the writable writableStreamRef holds now; on a stream that is not open
\* it rejects at once and the catch block runs
StopQueueSettled(r) ==
  /\ stopPc[r] = "awaitQueue"
  /\ QueueSettled(stopRef[r])
  /\ IF streams[writableStreamRef] = "open"
       THEN /\ streams' = [streams EXCEPT ![writableStreamRef] = "closing"]
            /\ stopPc' = [stopPc EXCEPT ![r] = "awaitClose"]
            /\ stopRef' = [stopRef EXCEPT ![r] = writableStreamRef]
            /\ UNCHANGED << alerts, isRendering, isPlaying, renderProgress,
                            gain >>
       ELSE /\ Alert("closeError")
            /\ ResetAfterStop(r)
            /\ UNCHANGED << streams, stopRef >>
  /\ UNCHANGED << envVars, auxVars, playlist, loopCount, selectedPreset,
                  showRenderModal, renderStatusText, usedCodec,
                  currentTrackIndex, currentLoopIteration, pc, renders,
                  cancelled, offVars, mediaRecorderRef, mediaRecorder,
                  onstop, writableStreamRef, queues, cancelPc, cancelRef,
                  events, chunksEmitted, sinkLog, currentTime, calls >>

\* the close() of recorder r's onstop settles, once the writes issued
\* before it have settled; an abort() issued while the close was in flight
\* does not undo it.  Success: the success alert; failure (also: the stream
\* was errored meanwhile): the "may be corrupt" alert.
CloseSettle(r, ok) ==
  /\ stopPc[r] = "awaitClose"
  /\ ~Busy(stopRef[r])
  /\ streams[stopRef[r]] \in {"closing", "closingAbort", "errored"}
  /\ streams[stopRef[r]] = "errored" => ~ok
  /\ streams' = [streams EXCEPT
                   ![stopRef[r]] = IF ok THEN "closed" ELSE "errored"]
  /\ Alert(IF ok THEN "success" ELSE "closeError")
  /\ ResetAfterStop(r)
  /\ UNCHANGED << envVars, auxVars, playlist, loopCount, selectedPreset,
                  showRenderModal, renderStatusText, usedCodec,
                  currentTrackIndex, currentLoopIteration, pc, renders,
                  cancelled, offVars, mediaRecorderRef, mediaRecorder,
                  onstop, writableStreamRef, queues, stopRef, cancelPc,
                  cancelRef, events, chunksEmitted, sinkLog, currentTime,
                  calls >>

\* what abort() makes of the stream at the moment it is called; busy: a
\* write is in flight
Aborted(st, busy) ==
  IF st = "open" THEN (IF busy THEN "erroring" ELSE "errored")
  ELSE IF st = "closing" THEN (IF busy THEN "erroring" ELSE "closingAbort")
  ELSE st

\* cancelRendering (the overlay's cancel button) up to await abort().  A
\* repeated click while abort() is pending awaits the same abort and repeats
\* the same assignments.
cancelRenderingStream ==
  /\ isRendering
  /\ ~DialogOpen
  /\ cancelPc = "none"
  /\ cancelled' = TRUE
  /\ IF RecorderActive
       THEN /\ onstop' = [onstop EXCEPT ![mediaRecorderRef] = FALSE]
            /\ StopRecorder
       ELSE UNCHANGED << onstop, mediaRecorder, events >>
  /\ IF writableStreamRef # 0
       THEN /\ streams' = [streams EXCEPT ![writableStreamRef] =
                             Aborted(@, Busy(writableStreamRef))]
            /\ cancelPc' = "awaitAbort"
            /\ cancelRef' = writableStreamRef
            /\ UNCHANGED << isRendering, isPlaying, gain >>
       ELSE /\ isRendering' = FALSE
            /\ isPlaying' = FALSE
            /\ gain' = 1
            /\ UNCHANGED << streams, cancelPc, cancelRef >>
  /\ UNCHANGED << envVars, auxVars, playlist, loopCount, selectedPreset,
                  showRenderModal, renderProgress, renderStatusText,
                  usedCodec, currentTrackIndex, currentLoopIteration, alerts,
                  pc, renders, offVars, mediaRecorderRef, writableStreamRef,
                  queues, stopPc, stopRef, chunksEmitted, sinkLog,
                  currentTime, calls >>

\* abort() has settled (it waits for a write or close in flight)
CancelAbortSettled ==
  /\ cancelPc = "awaitAbort"
  /\ streams[cancelRef] \notin {"erroring", "closingAbort"}
  /\ cancelPc' = "none"
  /\ isRendering' = FALSE
  /\ isPlaying' = FALSE
  /\ gain' = 1
  /\ UNCHANGED << envVars, auxVars, playlist, loopCount, selectedPreset,
                  showRenderModal, renderProgress, renderStatusText,
                  usedCodec, currentTrackIndex, currentLoopIteration, alerts,
                  pc, renders, cancelled, offVars, mediaRecorderRef,
                  mediaRecorder, onstop, writableStreamRef, streams, queues,
                  stopPc, stopRef, cancelRef, events, chunksEmitted, sinkLog,
                  currentTime, calls >>

RECURSIVE GCD(_, _)
GCD(a, b) == IF b = 0 THEN a ELSE GCD(b, a % b)

RatNorm(n, d) == LET g == GCD(n, d) IN Rat(n \div g, d \div g)

\* elapsed of the progress interval: previous loops, previous tracks of the
\* current loop, position in the current track
Elapsed ==
  currentLoopIteration * playlistDuration
    + SumDurations(SubSeq(playlist, 1, currentTrackIndex))
    + currentTime

\* Math.min((elapsed / totalDuration) * 100, 99.9)
TimerProgress ==
  IF Elapsed * 1000 >= 999 * totalDuration
    THEN Rat(999, 10)
    ELSE RatNorm(Elapsed * 100, totalDuration)

\* one firing of the 100 ms progress interval, alive while isRendering
ProgressTick ==
  /\ isRendering
  /\ renderProgress' = TimerProgress
  /\ renderProgress' # renderProgress
  /\ UNCHANGED << envVars, auxVars, playlist, loopCount, selectedPreset,
                  showRenderModal, isRendering, isPlaying, renderStatusText,
                  usedCodec, currentTrackIndex, currentLoopIteration, alerts,
                  pc, renders, cancelled, offVars, strVars >>

\* a startRendering call has not returned yet
CallPending ==
  \E c \in 1..MaxRenders : calls[c] \in {"picker", "createWritable"}

\* The streaming pipeline with one start-render request at a time: the start
\* button is not pressed again while an earlier request is still acquiring
\* its output file.  SpecOverlap below drops this restriction.
StreamNext ==
  \/ initiateRender
  \/ closeRenderModal
  \/ ~CallPending /\ startRendering
  \/ \E c \in 1..MaxRenders :
       \E n \in {"AbortError", "SecurityError", "Error"} :
         StreamPickerReject(c, n)
  \/ \E c \in 1..MaxRenders : StreamPickerResolve(c)
  \/ \E c \in 1..MaxRenders :
       \E ok, rok \in BOOLEAN : StreamCreateWritable(c, ok, rok)
  \/ \E r \in 1..MaxRenders : DataAvailable(r, 1)
  \/ \E size \in {0, 1} : FinalData(size)
  \/ \E r \in 1..MaxRenders : \E w \in queues[r].inflight :
       \E ok \in BOOLEAN : WriteSettle(r, w, ok)
  \/ handleTrackEnd
  \/ StopEvent
  \/ \E r \in 1..MaxRenders : StopQueueSettled(r)
  \/ \E r \in 1..MaxRenders : \E ok \in BOOLEAN : CloseSettle(r, ok)
  \/ cancelRenderingStream
  \/ CancelAbortSettled
  \/ ProgressTick

\* the streaming pipeline is run on a two-track playlist
InitStream ==
  /\ Init
  /\ playlist = << Track(1, 100), Track(2, 33) >>

SpecStream == InitStream /\ [][StreamNext]_vars

\* What is owed in the streaming pipeline: the sink settles every write()
\* it was handed, one way or the other, and a handler that awaits the write
\* queue goes on once the queue has settled.
SinkSettles ==
  \E r \in 1..MaxRenders : \E w \in queues[r].inflight :
    \E ok \in BOOLEAN : WriteSettle(r, w, ok)

QueueAwaited == \E r \in 1..MaxRenders : StopQueueSettled(r)

SpecStreamFair ==
  /\ InitStream
  /\ [][StreamNext]_vars
  /\ WF_vars(SinkSettles)
  /\ WF_vars(QueueAwaited)

\* The streaming pipeline with the start button pressed whenever the page
\* lets it be pressed: the modal stays up, with its start button live, until
\* createWritable() of the pending request has settled.
OverlapInit ==
  /\ Init
  /\ hasSaveFilePicker
  /\ hasEncodingAPI
  /\ playlist = << Track(1, 17) >>

OverlapNext ==
  \/ initiateRender
  \/ closeRenderModal
  \/ startRendering
  \/ \E c \in 1..MaxRenders :
       \E n \in {"AbortError", "SecurityError", "Error"} :
         StreamPickerReject(c, n)
  \/ \E c \in 1..MaxRenders : StreamPickerResolve(c)
  \/ \E c \in 1..MaxRenders :
       \E ok, rok \in BOOLEAN : StreamCreateWritable(c, ok, rok)
  \/ \E r \in 1..MaxRenders : DataAvailable(r, 1)
  \/ \E size \in {0, 1} : FinalData(size)
  \/ \E r \in 1..MaxRenders : \E w \in queues[r].inflight :
       \E ok \in BOOLEAN : WriteSettle(r, w, ok)
  \/ handleTrackEnd
  \/ StopEvent
  \/ \E r \in 1..MaxRenders : StopQueueSettled(r)
  \/ \E r \in 1..MaxRenders : \E ok \in BOOLEAN : CloseSettle(r, ok)
  \/ cancelRenderingStream
  \/ CancelAbortSettled
  \/ ProgressTick

SpecOverlap == OverlapInit /\ [][OverlapNext]_vars

\* ------------------------------------------- streaming: playlist editing
\* prev.filter(t => t.id !== id)
RemoveId(pl, id) == SelectSeq(pl, LAMBDA t : t.id # id)

\* faulty variant: the first assignment overwrites the element the second
\* one needs
SwapOverwrites(pl, a, b) ==
  [k \in 1..Len(pl) |-> IF k = a THEN pl[b] ELSE pl[k]]

\* [newPlaylist[index], newPlaylist[targetIndex]] swapped (1-based here)
Swap(pl, a, b) ==
  [k \in 1..Len(pl) |-> IF k = a THEN pl[b] ELSE IF k = b THEN pl[a] ELSE pl[k]]

\* the early return of moveTrack: the first row up, the last row down
AtEdge(pl, index, direction) ==
  \/ direction = "up" /\ index = 0
  \/ direction = "down" /\ index = Len(pl) - 1

\* the playlist moveTrack(index, direction) leaves behind (index 0-based)
MovedPlaylist(pl, index, direction) ==
  IF AtEdge(pl, index, direction) THEN pl
  ELSE LET targetIndex == IF direction = "up" THEN index - 1 ELSE index + 1
       IN Swap(pl, index + 1, targetIndex + 1)

\* the native save dialogue is up: it is modal, the page gets no input
PickerOpen == \E c \in 1..MaxRenders : calls[c] = "picker"

\* the sync effect, which has playlist among its dependencies: with a
\* non-empty playlist the audio element gets its source set anew, which
\* puts the playback position back to 0.  playlist[currentTrackIndex].file
\* with currentTrackIndex past the end of a non-empty playlist reads a
\* property of undefined: the effect throws ("effectError").
SyncAudioElement(pl, idx) ==
  IF Len(pl) > 0 /\ idx >= Len(pl)
    THEN /\ pc' = "effectError"
         /\ UNCHANGED currentTime
    ELSE /\ currentTime' = IF Len(pl) > 0 THEN 0 ELSE currentTime
         /\ UNCHANGED pc

\* the remove button of a playlist row.  The handler has no condition; the
\* modal and the progress overlay are drawn over the playlist editor, whose
\* buttons stay mounted, enabled and focusable.
removeTrack(id) ==
  /\ ~PickerOpen
  /\ pc # "effectError"
  /\ playlist' = RemoveId(playlist, id)
  /\ SyncAudioElement(playlist', currentTrackIndex)
  /\ UNCHANGED << envVars, auxVars, loopCount, selectedPreset,
                  showRenderModal, isRendering, isPlaying, renderProgress,
                  renderStatusText, usedCodec, currentTrackIndex,
                  currentLoopIteration, alerts, renders, cancelled,
                  offVars, mediaRecorderRef, mediaRecorder, onstop,
                  writableStreamRef, streams, queues, stopPc, stopRef,
                  cancelPc, cancelRef, events, gain, chunksEmitted, sinkLog,
                  calls >>

\* the up and down buttons of playlist row index (0-based, as in the code)
moveTrack(index, direction) ==
  /\ ~PickerOpen
  /\ pc # "effectError"
  /\ playlist' = MovedPlaylist(playlist, index, direction)
  /\ IF AtEdge(playlist, index, direction)
       THEN UNCHANGED << currentTime, pc >>
       ELSE SyncAudioElement(playlist', currentTrackIndex)
  /\ UNCHANGED << envVars, auxVars, loopCount, selectedPreset,
                  showRenderModal, isRendering, isPlaying, renderProgress,
                  renderStatusText, usedCodec, currentTrackIndex,
                  currentLoopIteration, alerts, renders, cancelled,
                  offVars, mediaRecorderRef, mediaRecorder, onstop,
                  writableStreamRef, streams, queues, stopPc, stopRef,
                  cancelPc, cancelRef, events, gain, chunksEmitted, sinkLog,
                  calls >>

\* a click on playlist row index: setCurrentTrackIndex(index) and
\* setIsPlaying(true); a change of index makes the sync effect load that
\* track
playTrack(index) ==
  /\ ~PickerOpen
  /\ pc # "effectError"
  /\ currentTrackIndex' = index
  /\ isPlaying' = TRUE
  /\ IF index # currentTrackIndex
       THEN SyncAudioElement(playlist, index)
       ELSE UNCHANGED << currentTime, pc >>
  /\ UNCHANGED << envVars, auxVars, playlist, loopCount, selectedPreset,
                  showRenderModal, isRendering, renderProgress,
                  renderStatusText, usedCodec, currentLoopIteration, alerts,
                  renders, cancelled, offVars, mediaRecorderRef,
                  mediaRecorder, onstop, writableStreamRef, streams, queues,
                  stopPc, stopRef, cancelPc, cancelRef, events, gain,
                  chunksEmitted, sinkLog, calls >>

\* Playback and playlist editing outside a render: the rows' click and
\* buttons and the audio element's ended event.
PlaybackNext ==
  \/ \E index \in 0..(Len(playlist) - 1) : playTrack(index)
  \/ handleTrackEnd
  \/ \E k \in 1..Len(playlist) : removeTrack(playlist[k].id)
  \/ \E index \in 0..(Len(playlist) - 1) :
       \E direction \in {"up", "down"} : moveTrack(index, direction)

\* playback and editing are run on a four-track playlist
PlaybackInit ==
  /\ Init
  /\ playlist = << Track(1, 5), Track(2, 4), Track(3, 4), Track(4, 4) >>

SpecPlayback == PlaybackInit /\ [][PlaybackNext]_vars

\* The start and the cancellation of a streaming render with the playlist
\* editor in use.  Playback is not advanced here, so currentTrackIndex
\* stays at 0.
PlaylistNext ==
  \/ initiateRender
  \/ closeRenderModal
  \/ ~CallPending /\ startRendering
  \/ \E c \in 1..MaxRenders : StreamPickerReject(c, "AbortError")
  \/ \E c \in 1..MaxRenders : StreamPickerResolve(c)
  \/ \E c \in 1..MaxRenders :
       \E ok, rok \in BOOLEAN : StreamCreateWritable(c, ok, rok)
  \/ \E k \in 1..Len(playlist) : removeTrack(playlist[k].id)
  \/ \E index \in 0..(Len(playlist) - 1) :
       \E direction \in {"up", "down"} : moveTrack(index, direction)
  \/ cancelRenderingStream
  \/ CancelAbortSettled

SpecPlaylist == InitStream /\ [][PlaylistNext]_vars

\* The start request over every short file name the user can have typed
\* into the modal's name field.
FilenameInit ==
  /\ InitRest
  /\ renderFilename \in FileNames
  /\ hasSaveFilePicker
  /\ hasEncodingAPI
  /\ playlist = << Track(1, 17) >>
  /\ loopCount = 1

FilenameNext ==
  \/ initiateRender
  \/ startRendering
  \/ \E c \in 1..MaxRenders : StreamPickerReject(c, "AbortError")

SpecFilename == FilenameInit /\ [][FilenameNext]_vars

\* ========================================================= offline: claims
FrameCount == Len(videoFrames)
LastFrame == videoFrames[Len(videoFrames)]

StrictlyIncreasing(log) ==
  \A k \in 1..(Len(log) - 1) : log[k].timestamp < log[k + 1].timestamp

Extends(old, new) ==
  /\ Len(new) > Len(old)
  /\ SubSeq(new, 1, Len(old)) = old

C2_SubmissionOrder ==
  [][ /\ (videoFrames' # videoFrames /\ videoFrames' # << >>) =>
           /\ Len(videoFrames') = Len(videoFrames) + 1
           /\ Extends(videoFrames, videoFrames')
           /\ videoFrames # << >> =>
                LastFrame.timestamp < videoFrames'[Len(videoFrames')].timestamp
      /\ (audioChunks' # audioChunks /\ audioChunks' # << >>) =>
           /\ Extends(audioChunks, audioChunks')
           /\ StrictlyIncreasing(audioChunks') ]_vars

\* both logs hold several entries after a completed render
C2_Witness ==
  /\ pc = "done"
  /\ FrameCount >= 3
  /\ Len(audioChunks) >= 3

\* C5 (as claimed): when no configuration of the priority list is supported
\* the render has failed and neither a file handle nor any other resource
\* was acquired.
NoConfigSupported ==
  /\ probed[1] = "unsupported"
  /\ probed[2] = "unsupported"
  /\ videoEncoder = "rejected"

C5_Claim_NoResourceBeforeNegotiation ==
  NoConfigSupported =>
    /\ pc = "failed"
    /\ fileHandle = "none"
    /\ audioContext = "none"
    /\ trackBuffers = << >>
    /\ offlineCtx.state = "none"
    /\ writable = "none"
    /\ muxer.state = "none"
    /\ videoEncoder = "none"
    /\ audioEncoder = "none"

\* C6: when decoding a track fails the render ends in failure with no video
\* frame and no audio chunk submitted and without a writable stream, a muxer
\* or an encoder.
DecodeFailed == pc = "failed" /\ Len(trackBuffers) < Len(playlist)

C6_DecodeFailureCreatesNothing ==
  DecodeFailed =>
    /\ ~isRendering
    /\ "error" \in alerts
    /\ "success" \notin alerts
    /\ videoFrames = << >>
    /\ audioChunks = << >>
    /\ writable = "none"
    /\ muxer.state = "none"
    /\ videoEncoder = "none"
    /\ audioEncoder = "none"

\* the second of two tracks failed to decode
C6_Witness ==
  /\ DecodeFailed
  /\ Len(playlist) = 2
  /\ Len(trackBuffers) = 1

\* C7 (as claimed): the configuration handed to the encoder is the first of
\* the priority order whose capability check reported support; one that was
\* reported unsupported or never checked is never configured.
C7_Claim_FirstSupportedSelected ==
  videoEncoder # "none" =>
    /\ probed[videoConfig] = "supported"
    /\ \A k \in 1..(videoConfig - 1) : probed[k] # "supported"

\* C8: frame i is a key frame exactly when i mod (fps x 2) = 0; the playlist
\* (3.0 s, 2.0 s) with loopCount 2 at 30 fps has totalDuration 10.0 s,
\* 300 frames and key frames exactly at 0, 60, 120, 180, 240.
ScenarioC8 ==
  /\ Len(playlist) = 2
  /\ playlist[1].duration = 3000
  /\ playlist[2].duration = 2000
  /\ loopCount = 2
  /\ fps = 30

C8_KeyFrames ==
  /\ videoFrames # << >> =>
       (LastFrame.keyFrame <=> (FrameCount - 1) % (fps * 2) = 0)
  /\ (ScenarioC8 /\ pc = "done") =>
       /\ totalDuration = 10000
       /\ totalFrames = 300
       /\ FrameCount = 300
       /\ { k \in 1..FrameCount : videoFrames[k].keyFrame }
            = {1, 61, 121, 181, 241}
       /\ \A k \in 1..FrameCount : videoFrames[k].i = k - 1

C8_Witness == ScenarioC8 /\ pc = "done" /\ FrameCount = 300

\* C9 (as claimed): the muxer is finalized only after both encoders were
\* flushed, the sink is closed only after the muxer was finalized, and every
\* completed render has closed the sink.
C9_Claim_FinalizeOrderAndClose ==
  /\ muxer.state = "finalized" => flushed = {"video", "audio"}
  /\ writable = "closed" => muxer.state = "finalized"
  /\ pc = "done" => writable = "closed"

\* ======================================================= streaming: claims
\* C3: writes to the output sink are serialized: at most one sink write is
\* in flight at any time, a write begins only after every write enqueued
\* before it has settled, the sink receives the blobs in enqueue order, and
\* the chain of an earlier render has nothing queued or in flight.
C3_WritesSerialized ==
  /\ Cardinality(InFlight) <= 1
  /\ \A r \in 1..MaxRenders :
       \A w \in queues[r].inflight :
         \A k \in 1..Len(queues[r].pending) : w.blob < queues[r].pending[k]
  /\ \A k \in 1..(Len(sinkLog) - 1) : sinkLog[k].blob < sinkLog[k + 1].blob
  /\ \A r \in 1..MaxRenders : r # writableStreamRef => QueueSettled(r)

\* a second write is in flight after the first settled, a third one waits
C3_Witness ==
  /\ Len(sinkLog) >= 2
  /\ writableStreamRef # 0
  /\ queues[writableStreamRef].inflight # {}
  /\ queues[writableStreamRef].pending # << >>

\* C4 (as claimed): after a user cancellation at any point of an active
\* render the sink is never closed successfully, no success notice is shown,
\* and once the cancellation has run to its end the sink is aborted.
C4_Claim_CancelLeavesNoOutput ==
  cancelled =>
    /\ "success" \notin alerts
    /\ StreamVal(writableStreamRef) # "closed"
    /\ (cancelPc = "none" /\ writableStreamRef # 0) =>
         streams[writableStreamRef] = "errored"

\* C10 (as claimed): progress is 100 only once the sink has confirmed a
\* successful close, never while it is open, has pending writes or failed
\* to close.
C10_Claim_FullProgressOnlyAfterClose ==
  RatEq(renderProgress, Rat(100, 1)) =>
    /\ StreamVal(writableStreamRef) = "closed"
    /\ writableStreamRef # 0 => QueueSettled(writableStreamRef)

\* C11 (as claimed): while a render is active the reported progress stays
\* within 0..100 and no update, the progress timer's included, sets a value
\* below the one reported before it.
C11_Claim_ProgressMonotone ==
  [][ (isRendering /\ isRendering') =>
        /\ ~RatLess(renderProgress', renderProgress)
        /\ ~RatLess(renderProgress', Rat(0, 1))
        /\ ~RatLess(Rat(100, 1), renderProgress') ]_vars

\* C12 (as claimed): at most one render job is active at a time: no two
\* start-render requests both hold a file handle (or anything acquired
\* after it) while neither has reached a terminal state.
HasHandle(c) == calls[c] = "createWritable" \/ streams[c] # "none"

Terminal(c) ==
  /\ calls[c] = "returned"
  /\ mediaRecorder[c] # "recording"
  /\ stopPc[c] = "none"
  /\ \A k \in 1..Len(events) : events[k].rec # c
  /\ ~(cancelPc # "none" /\ cancelRef = c)

Active(c) == calls[c] # "none" /\ ~Terminal(c)

C12_Claim_OneActiveJob ==
  \A c, d \in 1..MaxRenders :
    (c # d /\ Active(c) /\ Active(d)) => ~(HasHandle(c) /\ HasHandle(d))

\* ================================================= error handling: claims
\* C13 (as claimed): once either encoder has reported an error the render
\* is over: no further video frame or audio chunk is submitted, the muxer is
\* not finalized, no success notice is shown, and when the call ends the
\* output sink has been aborted.
EncoderErrored ==
  \/ videoEncoder \in {"closed", "rejected"}
  \/ audioEncoder = "closed"

C13_Claim_EncoderErrorFatal ==
  [][ (EncoderErrored /\ pc \in {"rendering", "flushVideo", "flushAudio"}) =>
        /\ videoFrames' = videoFrames
        /\ audioChunks' = audioChunks
        /\ muxer'.state # "finalized"
        /\ "success" \notin alerts'
        /\ pc' = "failed" => writable' = "aborted" ]_vars

\* C14 (as claimed): when a render has reached a terminal state (completed,
\* cancelled or failed) every resource it created is released: the output
\* sink is closed or aborted, both encoders are closed and every audio
\* context is closed.  (What a page reload discards counts as released.)
Released(x) == x \in {"none", "closed", "rejected", "aborted", "unloaded"}

C14_Claim_TerminalReleasesAll ==
  pc \in {"done", "failed", "reloaded"} =>
    /\ Released(writable)
    /\ Released(videoEncoder)
    /\ Released(audioEncoder)
    /\ Released(audioContext)
    /\ Released(offlineCtx.state)

\* C15 (as claimed): after a failed render (the recorder could not be
\* created, or the sink failed to close) the playback state is restored: the
\* speaker gain is back at 1 and the rendering flag is false.
RenderFailed == "recorderInit" \in alerts \/ "closeError" \in alerts

C15_Claim_FailureRestoresPlayback ==
  RenderFailed => (gain = 1 /\ ~isRendering)

\* C16 (as claimed): once the user has cancelled, no write is issued to the
\* output sink any more, no close() is started on it, and when the
\* cancellation has run to its end the sink is aborted, not closed.
C16_Claim_CancelStopsWork ==
  [][ /\ (cancelled /\ cancelled') =>
           /\ sinkLog' = sinkLog
           /\ \A s \in 1..MaxRenders :
                streams'[s] = "closing" => streams[s] = "closing"
      /\ (cancelled' /\ cancelPc' = "none" /\ writableStreamRef' # 0) =>
           streams'[writableStreamRef'] = "errored" ]_vars

\* C17 (as claimed): where a required capability is absent, the save-file
\* picker or the encoding API, a render never starts: the rendering flag is
\* never set, no file handle is requested and nothing is allocated or
\* changed for a render.
C17_Claim_NoStartWithoutCapability ==
  (~hasSaveFilePicker \/ ~hasEncodingAPI) =>
    /\ ~isRendering
    /\ \A c \in 1..MaxRenders : calls[c] = "none" /\ streams[c] = "none"
    /\ writableStreamRef = 0
    /\ gain = 1

\* C18 (as claimed): a render job moves through Idle, Preparing, Rendering,
\* Finalizing, Done in this order, leaving it only for Cancelled or Failed,
\* and ends in exactly one of Done, Cancelled, Failed.  The outcomes of the
\* current job are read off what the page has told the user since the start
\* request: the success notice (Done), a failure notice (Failed), the
\* confirmed cancel (Cancelled).
FailureAlerts ==
  {"unsupported", "securityError", "pickerError", "recorderInit",
   "closeError"}

Outcomes ==
  (IF "success" \in alerts THEN {"Done"} ELSE {})
    \cup (IF alerts \cap FailureAlerts # {} THEN {"Failed"} ELSE {})
    \cup (IF cancelled THEN {"Cancelled"} ELSE {})

JobPhase ==
  IF Outcomes # {} THEN CHOOSE o \in Outcomes : TRUE
  ELSE IF renders = 0 \/ calls[renders] \in {"none", "picker"} THEN "Idle"
  ELSE IF calls[renders] = "createWritable" THEN "Preparing"
  ELSE IF stopPc[renders] # "none" THEN "Finalizing"
  ELSE IF isRendering THEN "Rendering"
  ELSE "Idle"

PhaseEdges ==
  { << "Idle", "Preparing" >>, << "Preparing", "Rendering" >>,
    << "Rendering", "Finalizing" >>, << "Finalizing", "Done" >> }
    \cup { << p, q >> : p \in {"Idle", "Preparing", "Rendering", "Finalizing"},
                        q \in {"Cancelled", "Failed"} }
    \cup { << p, "Idle" >> : p \in {"Done", "Cancelled", "Failed"} }

C18_Claim_JobStateMachine ==
  [][ /\ Cardinality(Outcomes') <= 1
      /\ JobPhase' # JobPhase => << JobPhase, JobPhase' >> \in PhaseEdges
    ]_vars

\* C19: when a write to the output sink or its close has failed (the stream
\* of the current render is errored) no success notice is shown for that
\* render, and once the render is over the user has been warned that the
\* file may be corrupt.  A render the user cancelled ends without a notice.
C19_FailedOutputWarned ==
  (renders >= 1 /\ streams[renders] = "errored") =>
    /\ "success" \notin alerts
    /\ (~cancelled /\ ~isRendering) => "closeError" \in alerts

\* a render that wrote to the sink has ended, uncancelled, on an errored sink
C19_Witness ==
  /\ renders >= 1
  /\ streams[renders] = "errored"
  /\ ~cancelled
  /\ ~isRendering
  /\ \E k \in 1..Len(sinkLog) : sinkLog[k].sink = renders

\* ====================================================== compositor: claims
\* C20: for every loopCount >= 1 and every playlist the compositor's output
\* length is loopCount x sum(track durations) to within one sample period
\* at 48 kHz; loopCount x playlist copies are scheduled back to back from 0,
\* and the last one ends at that length: its tail is not cut and less than
\* one sample of silence follows it.  (Durations in microseconds; a decoded
\* buffer is as long as its track.)
Composed == offlineCtx.state = "suspended"
\* the sources of the pass that feeds masterGain and, through it, the analyser
Analysed == SelectSeq(sources, LAMBDA s : s.to = "masterGain")
LastSource == Analysed[Len(Analysed)]

FirstSupported ==
  CHOOSE k \in 1..Len(supportedTypes) :
    typeSupport[k] /\ \A j \in 1..(k - 1) : ~typeSupport[j]

ExpectedMime ==
  IF \E k \in 1..Len(supportedTypes) : typeSupport[k]
    THEN supportedTypes[FirstSupported]
    ELSE "video/webm; codecs=vp9"

ExpectedConfig ==
  IF probed[1] = "supported" THEN 1
  ELSE IF probed[2] = "supported" THEN 2 ELSE 3

C21_NegotiationDeterministic ==
  /\ mimeType # "" => mimeType = ExpectedMime
  /\ pc = "createWritable" =>
       /\ videoConfig = ExpectedConfig
       /\ chosenCodec = (IF probed[1] = "supported" THEN "hvc1" ELSE "avc1")
       /\ usedCodec = CodecLabel(chosenCodec)

\* both negotiations are over; each passed over an unsupported entry and
\* stopped before a later supported one
C21_Witness ==
  /\ pc = "createWritable"
  /\ probed[1] = "unsupported"
  /\ probed[2] = "supported"
  /\ ~typeSupport[1]
  /\ typeSupport[5]
  /\ typeSupport[6]
  /\ mimeType = supportedTypes[FirstSupported]

\* ======================================================= file name: claims
\* C22 (as claimed): the suggested file name is the base name with every
\* non-alphanumeric character stripped, then ".mp4": before the extension
\* it holds only a-z, A-Z, 0-9.
BaseOf(name) == SubSeq(name, 1, Len(name) - 4)
ExtensionOf(name) == SubSeq(name, Len(name) - 3, Len(name))

C22_Claim_OnlyAlphanumerics ==
  suggestedName # << >> =>
    /\ ExtensionOf(suggestedName) = << ".", "m", "p", "4" >>
    /\ \A k \in 1..Len(BaseOf(suggestedName)) :
         BaseOf(suggestedName)[k] \in AlphaNumeric

\* C22 (amended): the suggested file name is the base name with every code
\* unit other than a-z, A-Z, 0-9 replaced by an underscore, position by
\* position, then ".mp4".
C22_UnderscoreForOthers ==
  suggestedName # << >> =>
    /\ Len(suggestedName) = Len(renderFilename) + 4
    /\ ExtensionOf(suggestedName) = << ".", "m", "p", "4" >>
    /\ \A k \in 1..Len(renderFilename) :
         suggestedName[k] = IF renderFilename[k] \in AlphaNumeric
                              THEN renderFilename[k] ELSE "_"

\* a name with two characters to replace around one that is kept
C22_Witness ==
  /\ suggestedName # << >>
  /\ renderFilename = << " ", "Z", "-" >>

\* ================================================== offline: more claims
\* C23: per-frame steps never overlap.  A frame callback starts only on a
\* running graph with no other callback in progress, and the graph is
\* suspended while it runs; the graph is resumed only in the step that
\* submits the callback's frame, which is frame number frameIdx, the one
\* after the frames submitted so far.
CallbackInProgress == framePc = "bitmap"

C23_FrameStepsDoNotOverlap ==
  [][ pc = "rendering" =>
        /\ (~CallbackInProgress /\ CallbackInProgress') =>
             /\ framePc = "none"
             /\ offlineCtx.state = "running"
        /\ CallbackInProgress' =>
             /\ offlineCtx'.state = "suspended"
             /\ Len(videoFrames') = frameIdx'
        /\ (offlineCtx.state = "suspended" /\ offlineCtx'.state = "running") =>
             /\ CallbackInProgress
             /\ ~CallbackInProgress'
             /\ videoFrames' = Append(videoFrames,
                                      EncodedFrame(frameIdx, fps))
             /\ frameIdx' = frameIdx + 1
        /\ videoFrames' # videoFrames => CallbackInProgress
    ]_vars

\* the third frame's callback is in progress, two frames submitted
C23_Witness ==
  /\ pc = "rendering"
  /\ CallbackInProgress
  /\ frameIdx = 2
  /\ Len(videoFrames) = 2

LastChunk == audioChunks[Len(audioChunks)]

C25_AudioRechunking ==
  audioChunks # << >> =>
    /\ audioChunks[1].offset = 0
    /\ \A k \in 1..(Len(audioChunks) - 1) :
         /\ audioChunks[k].size = 48000
         /\ audioChunks[k + 1].offset
              = audioChunks[k].offset + audioChunks[k].size
    /\ LastChunk.size >= 1
    /\ LastChunk.size <= 48000
    /\ LastChunk.offset + LastChunk.size = offlineCtx.length
    /\ \A k \in 1..Len(audioChunks) :
         \* o / 48000 s in microseconds, o being a whole number of seconds
         /\ audioChunks[k].offset % 48000 = 0
         /\ audioChunks[k].timestamp
              = (audioChunks[k].offset \div 48000) * 1000000

\* a signal of three segments, the last one shorter
C25_Witness ==
  /\ Len(audioChunks) = 3
  /\ LastChunk.size < 48000
  /\ pc = "done"

\* C26: every track is decoded once, whatever loopCount is, and the audio
\* timeline holds loopCount copies of the whole playlist back to back in
\* playlist order: one copy of track j for loop l, starting at
\* l x sum(all durations) + sum(durations of the tracks before j), and no
\* two copies in the mix overlap.
Audible ==
  SelectSeq(sources,
            LAMBDA s : \/ s.to = "destination"
                       \/ << s.to, "destination" >> \in GraphEdges)

Overlap(a, b) == a.start < b.end /\ b.start < a.end

C26_Claim_LoopedTimeline ==
  sources # << >> =>
    /\ Len(trackBuffers) = Len(playlist)
    /\ \A j \in 1..Len(playlist) : trackBuffers[j] = playlist[j].duration
    /\ Len(Audible) = loopCount * Len(playlist)
    /\ \A l \in 0..(loopCount - 1) : \A j \in 1..Len(playlist) :
         \E k \in 1..Len(Audible) :
           /\ Audible[k].loop = l
           /\ Audible[k].track = j
           /\ Audible[k].start
                = l * SumDurations(playlist)
                    + SumDurations(SubSeq(playlist, 1, j - 1))
    /\ \A a, b \in 1..Len(Audible) :
         a # b => ~Overlap(Audible[a], Audible[b])

\* C27: during the video phase the progress shown after frame i is
\* (i / totalFrames) x 90, and from the start of the job until the audio
\* phase begins the progress never exceeds 90.
BeforeAudioPhase ==
  pc \in {"decode", "probeHEVC", "probeAVC", "createWritable", "rendering"}

C27_VideoProgressCapped ==
  /\ BeforeAudioPhase => ~RatLess(Rat(90, 1), renderProgress)
  /\ (pc = "rendering" /\ videoFrames # << >>) =>
       /\ renderProgress.d = totalFrames
       /\ renderProgress.n = LastFrame.i * 90
       /\ LastFrame.i = FrameCount - 1

\* the last frame of a render of more than one frame has been submitted
C27_Witness ==
  /\ pc = "rendering"
  /\ FrameCount = totalFrames
  /\ totalFrames >= 3
  /\ RatLess(Rat(0, 1), renderProgress)

\* C28: the audio-encoding phase advances the progress from 90 to a mark
\* short of the end: once the audio chunks are submitted and before the
\* container is finalized, the progress is above 90 and below 100.
AudioSubmitted ==
  /\ audioChunks # << >>
  /\ pc \in {"flushVideo", "flushAudio"}

C28_Claim_AudioPhaseProgress ==
  AudioSubmitted =>
    /\ RatLess(Rat(90, 1), renderProgress)
    /\ RatLess(renderProgress, Rat(100, 1))

\* ======================================================= playlist: claims
\* C29: the playlist changes only outside an active render: while a render
\* job is active, the wait for the output file included, no removeTrack or
\* moveTrack step changes the playlist, so the job renders the track
\* sequence it was confirmed with.
RenderActive == isRendering \/ CallPending

C29_Claim_PlaylistFrozenWhileActive ==
  [][RenderActive => playlist' = playlist]_vars

\* ======================================================= liveness: claims
\* C30: every render that has started terminates: under fair scheduling of
\* the runtime's steps the rendering flag, once true, is eventually false
\* again, also when a frame callback throws or an encoder reports an error;
\* the job does not stay stuck with the audio graph suspended.
C30_Claim_RenderTerminates == isRendering ~> ~isRendering

\* ======================================================= playback: claims
\* C31: after any sequence of playTrack, handleTrackEnd, removeTrack and
\* moveTrack on a non-empty playlist, currentTrackIndex is a valid index
\* (0 <= currentTrackIndex < playlist length), and the sync effect never
\* reads a track that is not there.
C31_Claim_IndexValid ==
  /\ Len(playlist) > 0 =>
       /\ currentTrackIndex >= 0
       /\ currentTrackIndex < Len(playlist)
  /\ pc # "effectError"

\* ====================================================== write queue: claims
\* C32: in the streaming path, on normal completion close() is called on the
\* sink only when every write enqueued before the stop event, the one of the
\* final chunk included, has settled, and once close() has been called no
\* write is issued to that sink.
CloseCalled(s) == streams[s] \in {"closing", "closingAbort", "closed"}

WritesSettled(s) ==
  /\ queues[s].pending = << >>
  /\ queues[s].inflight = {}
  /\ ~Busy(s)

WritesTo(log, s) == SelectSeq(log, LAMBDA w : w.sink = s)

C32_CloseAfterWrites ==
  [][\A s \in 1..MaxRenders :
       /\ CloseCalled(s)' => WritesSettled(s)'
       /\ CloseCalled(s) =>
            \/ WritesTo(sinkLog', s) = WritesTo(sinkLog, s)
            \/ WritesTo(sinkLog', s) = << >>]_vars

\* close() is in flight after two chunks, the last of them the final chunk
\* of the stop, were written to the sink
C32_Witness ==
  \E r \in 1..MaxRenders :
    /\ stopPc[r] = "awaitClose"
    /\ streams[stopRef[r]] = "closing"
    /\ Len(WritesTo(sinkLog, stopRef[r])) >= 2
    /\ sinkLog[Len(sinkLog)].blob = chunksEmitted
    /\ chunksEmitted >= 2

\* C33: a failed sink write never blocks the write queue: a closure waits
\* only behind a write that is still in flight, after a failure the writes
\* enqueued later are attempted (and rejected) in turn instead of staying
\* queued, and the wait of onstop on the queue always comes to an end.
Unblocked(r) ==
  /\ queues[r].pending # << >> => queues[r].inflight # {}
  /\ streams[r] = "errored" => queues[r].pending = << >>

\* an onstop handler is at await writeQueueRef.current
AwaitingQueue == \E r \in 1..MaxRenders : stopPc[r] = "awaitQueue"

C33_FailedWriteDoesNotBlock ==
  /\ [](\A r \in 1..MaxRenders : Unblocked(r))
  /\ AwaitingQueue ~> ~AwaitingQueue

\* a write has failed, a chunk emitted after it has been through the queue,
\* and onstop is waiting on the settled queue
C33_Witness ==
  \E r \in 1..MaxRenders :
    /\ stopPc[r] = "awaitQueue"
    /\ streams[stopRef[r]] = "errored"
    /\ ~cancelled
    /\ cancelPc = "none"
    /\ QueueSettled(stopRef[r])
    /\ chunksEmitted > sinkLog[Len(sinkLog)].blob

\* ======================================================== playback: order
\* C34: from track 0 of loop 0, each track-end event moves playback to the
\* next track in playlist order, wrapping to track 0 for loopCount passes
\* in all, so playlist length x loopCount tracks are played before playback
\* stops.  In the streaming path the recorder is stopped once, when the
\* last track of the last loop ends, and a stop request that finds the
\* recorder inactive does nothing.
Position == currentLoopIteration * Len(playlist) + currentTrackIndex
LastPosition == loopCount * Len(playlist) - 1

StopsOf(evs, r) ==
  Len(SelectSeq(evs, LAMBDA e : e.kind = "stop" /\ e.rec = r))

C34_PlaybackOrder ==
  [][/\ (~isPlaying /\ isPlaying') => Position' = 0
     /\ (isPlaying /\ Position' # Position) =>
          /\ Position' = Position + 1
          /\ Position' <= LastPosition
          /\ currentTrackIndex' = (currentTrackIndex + 1) % Len(playlist)
     \* the track-end event that finds nothing left to play
     /\ (isPlaying /\ ~isPlaying' /\ isRendering') =>
          /\ Position = LastPosition
          /\ IF RecorderActive
               THEN /\ mediaRecorder'[mediaRecorderRef] = "inactive"
                    /\ StopsOf(events', mediaRecorderRef) = 1
               ELSE UNCHANGED << mediaRecorder, events >>
     /\ \A r \in 1..MaxRenders :
          /\ StopsOf(events', r) <= 1
          /\ mediaRecorder[r] = "inactive" => mediaRecorder'[r] = "inactive"
          /\ (mediaRecorder[r] = "recording" /\ mediaRecorder'[r] = "inactive"
                /\ ~cancelled') =>
               Position = LastPosition /\ ~isPlaying']_vars

\* two passes over the two-track playlist have been played and the recorder
\* was stopped by the last track's end
C34_Witness ==
  /\ loopCount = 2
  /\ Position = LastPosition
  /\ isRendering
  /\ ~isPlaying
  /\ ~cancelled
  /\ mediaRecorderRef # 0
  /\ mediaRecorder[mediaRecorderRef] = "inactive"
  /\ StopsOf(events, mediaRecorderRef) = 1

\* =================================================== codec family: claims
\* C35: whatever the outcome of the negotiation, the codec family declared
\* for the muxer's video track (hvc1 or avc1) is the family of the codec
\* string the video encoder is configured with, and the codec label on
\* display names that family.
\* the family is the part of the codec string before the first dot
FamilyOf(codec) ==
  IF codec = "hvc1.1.6.L120.B0" THEN "hvc1"
  ELSE IF codec \in {"avc1.640028", "avc1.420028"} THEN "avc1"
  ELSE "other"

LabelFamily(label) ==
  IF label = "HEVC (H.265)" THEN "hvc1"
  ELSE IF label = "AVC (H.264)" THEN "avc1"
  ELSE "none"

RequestStep(c) ==
  \/ calls[c] = "none" /\ calls'[c] = "picker"
  \/ calls[c] = "picker" /\ calls'[c] = "returned"

C36_DismissedPickerNoEffect ==
  [][\A c \in 1..MaxRenders :
       RequestStep(c) =>
         /\ ~isRendering /\ ~isRendering'
         /\ UNCHANGED << renderProgress, renderStatusText, gain, isPlaying,
                         currentTrackIndex, currentLoopIteration,
                         currentTime >>
         /\ UNCHANGED << writableStreamRef, streams, queues,
                         mediaRecorderRef, mediaRecorder, onstop >>
         /\ UNCHANGED << muxer, writable, videoEncoder, audioEncoder >>
         /\ streams[c] = "none"]_vars

\* after a render that ran to its end, a second request was dismissed
C36_Witness ==
  /\ calls[1] = "returned"
  /\ calls[2] = "returned"
  /\ streams[1] = "closed"
  /\ streams[2] = "none"
  /\ alerts = {}
  /\ currentTrackIndex = 1
  /\ ~isRendering
  /\ gain = 1

\* ================================================ playlist editing: claims
\* C37: moveTrack(index, direction) swaps the track at index with its
\* neighbour in that direction and leaves every other position as it is, so
\* the playlist keeps its length and its tracks; the first track moved up or
\* the last moved down leaves the playlist unchanged; removeTrack(id)
\* removes the tracks with that id, all of them and nothing else, and keeps
\* the others in their order.
TracksOf(pl) == { pl[k] : k \in 1..Len(pl) }

NeighbourSwap(before, after, a, b) ==
  /\ Len(after) = Len(before)
  /\ after[a] = before[b]
  /\ after[b] = before[a]
  /\ \A k \in 1..Len(before) : k \notin {a, b} => after[k] = before[k]
  /\ TracksOf(after) = TracksOf(before)

\* sub is what is left of pl, in order, when the rows of dropped are taken out
RestInOrder(pl, sub, dropped) ==
  /\ Len(sub) = Len(pl) - Cardinality(dropped)
  /\ \A k \in 1..Len(pl) :
       k \notin dropped =>
         sub[k - Cardinality({d \in dropped : d < k})] = pl[k]

MoveAsClaimed(pl, index, direction) ==
  LET after == MovedPlaylist(pl, index, direction)
  IN IF direction = "up"
       THEN IF index = 0 THEN after = pl
            ELSE NeighbourSwap(pl, after, index + 1, index)
       ELSE IF index = Len(pl) - 1 THEN after = pl
            ELSE NeighbourSwap(pl, after, index + 1, index + 2)

RemoveAsClaimed(pl, id) ==
  RestInOrder(pl, RemoveId(pl, id),
              { k \in 1..Len(pl) : pl[k].id = id })

C37_EditsAsClaimed ==
  /\ \A index \in 0..(Len(playlist) - 1) :
       \A direction \in {"up", "down"} :
         MoveAsClaimed(playlist, index, direction)
  /\ \A id \in 1..4 : RemoveAsClaimed(playlist, id)

\* three tracks are left of four, in an order the buttons have produced
C37_Witness ==
  /\ Len(playlist) = 3
  /\ playlist[1].id = 4
  /\ playlist[2].id = 1
  /\ playlist[3].id = 3

====
